---- MODULE Spec2Model ----
(***************************************************************************)
(* Model of the review-to-recommendation pipeline of hospyra-ai-agent:     *)
(* review_analyzer.analyze_reviews_with_agent (an async generator) and the *)
(* HTTP entry point main.get_agent_recommendations that streams it.        *)
(***************************************************************************)
EXTENDS Integers, Sequences, FiniteSets, TLC

(***************************************************************************)
(* Bounds of the model.                                                    *)
(***************************************************************************)
\* most rows the reviews table holds for the venue
MaxReviews == 5
\* number of pipeline runs (requests) in one behaviour
MaxRuns == 2
\* largest value of the request parameter limit (the smallest is -1)
MaxLimit == 2
\* precision, in bits, of the binary floating-point format that stands for
\* Python's float (53 bits in CPython); the smallest quantum is 2^-MantBits
MantBits == 7
\* longest dish name and most catalog entries drawn for the matcher
MaxNameLen == 3
MaxCatalog == 2
\* longest response content, in tokens, the parser is run on
MaxTokens == 4
\* largest mention sum of each kind, and largest occurrence_count, the
\* scorer is run on
MaxMentions == 8
MaxCount == 3
\* largest set list(set(...)) is taken of in every order
MaxPermuted == 4
\* longest keyword or descriptor list the scorer is run on
MaxKeywords == 12

(***************************************************************************)
(* Program constants.                                                      *)
(***************************************************************************)
chunk_size == 4
\* the venue every request of the model is made for
HotelId == 1

(***************************************************************************)
(* Floating point.  A float is an integer number of quanta (2^-MantBits)   *)
(* with at most MantBits significant bits; every operation rounds its      *)
(* exact result to the nearest such value, ties to the even mantissa, as   *)
(* IEEE-754 binary64 does with 53 bits.                                    *)
(***************************************************************************)
RECURSIVE Pow2(_)
Pow2(n) == IF n = 0 THEN 1 ELSE 2 * Pow2(n - 1)

Abs(x) == IF x < 0 THEN -x ELSE x

\* quanta per unit: One is the float 1.0
One == Pow2(MantBits)

\* the step between neighbouring floats around the magnitude a/d
RECURSIVE StepFor(_, _, _)
StepFor(a, d, step) ==
    IF a \div (d * step) < Pow2(MantBits) THEN step ELSE StepFor(a, d, 2 * step)

\* the float nearest to the rational n/d (d > 0), ties to even
RoundRat(n, d) ==
    LET a    == Abs(n)
        step == StepFor(a, d, 1)
        q    == a \div (d * step)
        r    == a % (d * step)
        up   == \/ 2 * r > d * step
                \/ 2 * r = d * step /\ q % 2 = 1
        m    == (IF up THEN q + 1 ELSE q) * step
    IN  IF n < 0 THEN -m ELSE m

\* float(i) for an int i
ToFloat(i) == RoundRat(i * One, 1)
\* x + y, x / y and x * y on floats
FAdd(x, y) == RoundRat(x + y, 1)
FDiv(x, y) == RoundRat(x * One, y)
FMul(x, y) == RoundRat(x * y, One)
FMin(x, y) == IF x < y THEN x ELSE y

(***************************************************************************)
(* Strings are sequences of one-character strings.                         *)
(***************************************************************************)
Uppers == <<"A","B","C","D","E","F","G","H","I","J","K","L","M",
            "N","O","P","Q","R","S","T","U","V","W","X","Y","Z">>
Lowers == <<"a","b","c","d","e","f","g","h","i","j","k","l","m",
            "n","o","p","q","r","s","t","u","v","w","x","y","z">>

LowerChar(c) ==
    IF \E i \in 1..Len(Uppers) : Uppers[i] = c
    THEN Lowers[CHOOSE i \in 1..Len(Uppers) : Uppers[i] = c]
    ELSE c

\* str.lower()
Lower(s) == [i \in 1..Len(s) |-> LowerChar(s[i])]

IsSpace(c) == c \in {" ", "\t", "\n"}

\* str.split(): the maximal runs of non-whitespace characters
RECURSIVE SplitFrom(_, _, _, _)
SplitFrom(s, i, cur, acc) ==
    IF i > Len(s)
    THEN IF cur = <<>> THEN acc ELSE Append(acc, cur)
    ELSE IF IsSpace(s[i])
         THEN SplitFrom(s, i + 1, <<>>, IF cur = <<>> THEN acc ELSE Append(acc, cur))
         ELSE SplitFrom(s, i + 1, Append(cur, s[i]), acc)

Split(s) == SplitFrom(s, 1, <<>>, <<>>)

\* sub in s
Contains(s, sub) ==
    \E i \in 0..(Len(s) - Len(sub)) : SubSeq(s, i + 1, i + Len(sub)) = sub

(***************************************************************************)
(* The catalog matcher (review_analyzer.py 132-145).  menu rows are        *)
(* records [id, name]; the result is the index of best_match in            *)
(* menu_items, 0 for None, and IndexError when name_words[0] is evaluated  *)
(* on an empty name_words.                                                 *)
(***************************************************************************)
IndexError == -1

ItemQualifies(name_words, item) ==
    LET item_name_lower == Lower(item.name)
    IN  IF Len(name_words) = 1
        THEN Contains(item_name_lower, name_words[1])
        ELSE /\ Contains(item_name_lower, name_words[1])
             /\ Contains(item_name_lower, name_words[Len(name_words)])

RECURSIVE MatchFrom(_, _, _)
MatchFrom(name_words, items, i) ==
    IF i > Len(items) THEN 0
    ELSE IF Len(name_words) = 0 THEN IndexError
    ELSE IF ItemQualifies(name_words, items[i]) THEN i
    ELSE MatchFrom(name_words, items, i + 1)

best_match(dish_name_lower, items) == MatchFrom(Split(dish_name_lower), items, 1)

\* 128-145 for one dish name: a name that is empty is skipped before the
\* search (129-130)
Resolve(name, items) ==
    LET dish_name_lower == Lower(name)
    IN  IF dish_name_lower = <<>> THEN 0 ELSE best_match(dish_name_lower, items)

(***************************************************************************)
(* The response parser (review_analyzer.py 120-125).  response.content is  *)
(* a sequence of tokens: an opening brace, a closing brace, a stretch of   *)
(* text without braces, or the body of a JSON object (its members, inner   *)
(* braces included).                                                       *)
(***************************************************************************)
LB == [t |-> "{"]
RB == [t |-> "}"]
Prose == [t |-> "text"]
\* "dishes": [ ... ]
Body(dishes) == [t |-> "body", has_dishes |-> TRUE, is_list |-> TRUE, dishes |-> dishes]
\* "dishes": null
BodyNull == [t |-> "body", has_dishes |-> TRUE, is_list |-> FALSE, dishes |-> <<>>]
\* an object without the key dishes
BodyOther == [t |-> "body", has_dishes |-> FALSE, is_list |-> FALSE, dishes |-> <<>>]

IndicesOf(content, tok) == {i \in 1..Len(content) : content[i].t = tok}
Min(S) == CHOOSE x \in S : \A y \in S : x <= y
Max(S) == CHOOSE x \in S : \A y \in S : x >= y

\* re.search(r'\{[\s\S]*\}', content): from the first "{" to the last "}"
\* after it; <<>> when there is no match
json_match(content) ==
    LET opens  == IndicesOf(content, "{")
        closes == IF opens = {} THEN {}
                  ELSE {i \in IndicesOf(content, "}") : i > Min(opens)}
    IN  IF closes = {} THEN <<>> ELSE SubSeq(content, Min(opens), Max(closes))

\* json.loads accepts exactly one object: { } or { members }
JsonValid(span) ==
    \/ Len(span) = 2 /\ span[1].t = "{" /\ span[2].t = "}"
    \/ Len(span) = 3 /\ span[1].t = "{" /\ span[2].t = "body" /\ span[3].t = "}"

(***************************************************************************)
(* The aggregator (review_analyzer.py 127-177).  aggregated_dishes is a    *)
(* dict: a sequence of entries in insertion order, at most one per id.     *)
(* An observation lists in bad the numeric fields whose JSON value is not  *)
(* a number (adding it raises TypeError).                                  *)
(***************************************************************************)
HasKey(agg, id) == \E i \in 1..Len(agg) : agg[i].id = id
KeyIndex(agg, id) == CHOOSE i \in 1..Len(agg) : agg[i].id = id

NewEntry(item) ==
    [id |-> item.id, dish_name |-> item.name,
     sentiment_score |-> 0, positive_mentions |-> 0, negative_mentions |-> 0,
     neutral_mentions |-> 0, top_keywords |-> <<>>, taste_descriptors |-> <<>>,
     summary_parts |-> <<>>, occurrence_count |-> 0]

\* AddObservation with positive_mentions assigned (=) where 166 adds (+=)
AddObservationAssign(ad, dish) ==
    IF dish.bad # {} THEN [ad |-> ad, err |-> TRUE]
    ELSE [ad |-> [ad EXCEPT !.positive_mentions = dish.positive_mentions,
                            !.negative_mentions = @ + dish.negative_mentions,
                            !.neutral_mentions = @ + dish.neutral_mentions,
                            !.sentiment_score = FAdd(@, dish.sentiment_score),
                            !.occurrence_count = @ + 1,
                            !.top_keywords = @ \o dish.top_keywords,
                            !.taste_descriptors = @ \o dish.taste_descriptors,
                            !.summary_parts = IF dish.summary = <<>> THEN @
                                              ELSE Append(@, dish.summary)],
          err |-> FALSE]

\* the statements 166-177 in order; the first bad field raises and leaves
\* the earlier additions in place
AddObservation(ad, dish) ==
    IF "positive_mentions" \in dish.bad THEN [ad |-> ad, err |-> TRUE] ELSE
    LET a1 == [ad EXCEPT !.positive_mentions = @ + dish.positive_mentions] IN
    IF "negative_mentions" \in dish.bad THEN [ad |-> a1, err |-> TRUE] ELSE
    LET a2 == [a1 EXCEPT !.negative_mentions = @ + dish.negative_mentions] IN
    IF "neutral_mentions" \in dish.bad THEN [ad |-> a2, err |-> TRUE] ELSE
    LET a3 == [a2 EXCEPT !.neutral_mentions = @ + dish.neutral_mentions] IN
    IF "sentiment_score" \in dish.bad THEN [ad |-> a3, err |-> TRUE] ELSE
    LET a4 == [a3 EXCEPT !.sentiment_score = FAdd(@, dish.sentiment_score),
                         !.occurrence_count = @ + 1,
                         !.top_keywords = @ \o dish.top_keywords,
                         !.taste_descriptors = @ \o dish.taste_descriptors,
                         !.summary_parts = IF dish.summary = <<>> THEN @
                                           ELSE Append(@, dish.summary)]
    IN  [ad |-> a4, err |-> FALSE]

\* one iteration of the loop over chunk_dishes (128-177)
MergeDish(agg, dish, items) ==
    LET bm == Resolve(dish.name, items)
    IN  IF bm = IndexError THEN [agg |-> agg, err |-> TRUE]
        ELSE IF bm = 0 THEN [agg |-> agg, err |-> FALSE]
        ELSE LET item_id == items[bm].id
                 agg1 == IF HasKey(agg, item_id) THEN agg
                         ELSE Append(agg, NewEntry(items[bm]))
                 k    == KeyIndex(agg1, item_id)
                 r    == AddObservation(agg1[k], dish)
             IN  [agg |-> [agg1 EXCEPT ![k] = r.ad], err |-> r.err]

\* the loop over chunk_dishes, left at the first exception
RECURSIVE MergeDishes(_, _, _, _)
MergeDishes(agg, chunk_dishes, items, i) ==
    IF i > Len(chunk_dishes) THEN [agg |-> agg, err |-> FALSE]
    ELSE LET m == MergeDish(agg, chunk_dishes[i], items)
         IN  IF m.err THEN m ELSE MergeDishes(m.agg, chunk_dishes, items, i + 1)

\* 120-127: the dishes the loop of 127 iterates over, or the exception
\* raised before its first iteration
chunk_dishes(content) ==
    LET span == json_match(content)
    IN  IF span = <<>> THEN [dishes |-> <<>>, err |-> FALSE]          \* continue
        ELSE IF ~JsonValid(span) THEN [dishes |-> <<>>, err |-> TRUE] \* JSONDecodeError
        ELSE IF Len(span) = 2 \/ ~span[2].has_dishes
             THEN [dishes |-> <<>>, err |-> FALSE]                    \* get's default
        ELSE IF ~span[2].is_list THEN [dishes |-> <<>>, err |-> TRUE] \* TypeError
        ELSE [dishes |-> span[2].dishes, err |-> FALSE]

\* the body of the try block after `response = await task` (120-177): the
\* mapping it leaves, and whether it was left by an exception
ProcessContent(agg, content, items) ==
    LET c == chunk_dishes(content)
    IN  IF c.err THEN [agg |-> agg, err |-> TRUE]
        ELSE MergeDishes(agg, c.dishes, items, 1)

(***************************************************************************)
(* The scorer (review_analyzer.py 186-204).                                *)
(***************************************************************************)
Range(f) == {f[i] : i \in DOMAIN f}

\* " ".join(parts)
RECURSIVE Join(_)
Join(parts) ==
    IF parts = <<>> THEN <<>>
    ELSE IF Len(parts) = 1 THEN parts[1]
    ELSE parts[1] \o <<" ">> \o Join(Tail(parts))

\* s[:n] without the cut
TakeAll(s, n) == s

\* s[:n] for n >= 0
Take(s, n) == SubSeq(s, 1, IF n < Len(s) THEN n ELSE Len(s))

\* the distinct elements of xs in the order of their first occurrence
RECURSIVE Dedup(_)
Dedup(xs) ==
    IF xs = <<>> THEN <<>>
    ELSE LET front == Dedup(SubSeq(xs, 1, Len(xs) - 1))
             x     == xs[Len(xs)]
         IN  IF x \in Range(front) THEN front ELSE Append(front, x)

Rotate(s, k) == [i \in 1..Len(s) |-> s[((i - 1 + k) % Len(s)) + 1]]
Reverse(s) == [i \in 1..Len(s) |-> s[Len(s) + 1 - i]]

\* the lists list(set(xs)) can be: the distinct elements of xs in any order
\* (the iteration order of a set of str depends on the hash seed).  Sets of
\* up to MaxPermuted elements are taken in every order; of a larger set the
\* orders taken are the rotations of the first-occurrence order and their
\* reversals, so that every element occurs at every position.
ListOfSet(xs) ==
    LET S == Range(xs)
    IN  IF Cardinality(S) <= MaxPermuted
        THEN {p \in [1..Cardinality(S) -> S] : Range(p) = S}
        ELSE LET b == Dedup(xs)
             IN  {Rotate(b, k) : k \in 0..(Len(b) - 1)}
                 \cup {Reverse(Rotate(b, k)) : k \in 0..(Len(b) - 1)}

\* ScoreDish with the sentiment sum divided by the number of mentions
ScoreDishMentionWeighted(ad, kw, td) ==
    LET total_mentions == ad.positive_mentions + ad.negative_mentions
                          + ad.neutral_mentions
        mean == IF total_mentions > 0
                THEN FDiv(ad.sentiment_score, ToFloat(total_mentions))
                ELSE ad.sentiment_score
    IN  [id |-> ad.id, sentiment_score |-> mean,
         positive_mentions |-> ad.positive_mentions,
         negative_mentions |-> ad.negative_mentions,
         neutral_mentions |-> ad.neutral_mentions,
         occurrence_count |-> ad.occurrence_count,
         mention_count |-> total_mentions,
         popularity_score |->
             FMin(FMul(ToFloat(total_mentions), ToFloat(5)), ToFloat(100)),
         hype_score |->
             IF total_mentions > 0
             THEN FMul(FDiv(ToFloat(ad.positive_mentions - ad.negative_mentions),
                            ToFloat(total_mentions)), ToFloat(100))
             ELSE 0,
         confidence_score |->
             FMin(FMul(ToFloat(total_mentions), ToFloat(10)), ToFloat(100)),
         final_summary |-> Take(Join(ad.summary_parts), 500),
         top_keywords |-> Take(kw, 10),
         taste_descriptors |-> Take(td, 10)]

\* the body of the loop 187-204 for one entry, given the order in which the
\* two sets iterate
ScoreDish(ad, kw, td) ==
    LET total_mentions == ad.positive_mentions + ad.negative_mentions
                          + ad.neutral_mentions
    IN  [id |-> ad.id,
         sentiment_score |->
             IF ad.occurrence_count > 0
             THEN FDiv(ad.sentiment_score, ToFloat(ad.occurrence_count))
             ELSE ad.sentiment_score,
         positive_mentions |-> ad.positive_mentions,
         negative_mentions |-> ad.negative_mentions,
         neutral_mentions |-> ad.neutral_mentions,
         occurrence_count |-> ad.occurrence_count,
         mention_count |-> total_mentions,
         popularity_score |->
             FMin(FMul(ToFloat(total_mentions), ToFloat(5)), ToFloat(100)),
         hype_score |->
             IF total_mentions > 0
             THEN FMul(FDiv(ToFloat(ad.positive_mentions - ad.negative_mentions),
                            ToFloat(total_mentions)), ToFloat(100))
             ELSE 0,
         confidence_score |->
             FMin(FMul(ToFloat(total_mentions), ToFloat(10)), ToFloat(100)),
         final_summary |-> Take(Join(ad.summary_parts), 500),
         top_keywords |-> Take(kw, 10),
         taste_descriptors |-> Take(td, 10)]

ScoredVariants(ad) ==
    {ScoreDish(ad, kw, td) : kw \in ListOfSet(ad.top_keywords),
                             td \in ListOfSet(ad.taste_descriptors)}

\* the lists all_valid_dishes can be after the loop 186-204
RECURSIVE ScoreAll(_)
ScoreAll(agg) ==
    IF agg = <<>> THEN {<<>>}
    ELSE {<<v>> \o rest : v \in ScoredVariants(Head(agg)), rest \in ScoreAll(Tail(agg))}

(***************************************************************************)
(* The persister (review_analyzer.py 209-253).  The table                  *)
(* dish_review_analytics is the sequence of its rows.                      *)
(***************************************************************************)
Keys(table) == {table[i].menu_item_id : i \in 1..Len(table)}
RowOf(table, id) == table[CHOOSE i \in 1..Len(table) : table[i].menu_item_id = id]

Row(ad, hotel_id, n_reviews) ==
    [menu_item_id |-> ad.id,
     hotel_id |-> hotel_id,
     mention_count |-> ad.mention_count,
     positive_mentions |-> ad.positive_mentions,
     negative_mentions |-> ad.negative_mentions,
     neutral_mentions |-> ad.neutral_mentions,
     sentiment_score |-> ad.sentiment_score,
     popularity_score |-> ad.popularity_score,
     hype_score |-> ad.hype_score,
     confidence_score |-> ad.confidence_score,
     llm_summary |-> ad.final_summary,
     top_keywords |-> ad.top_keywords,
     taste_descriptors |-> ad.taste_descriptors,
     processed_review_count |-> n_reviews]

\* INSERT ... ON CONFLICT (menu_item_id) DO UPDATE SET ...: the update
\* names every column but hotel_id
\* Upsert for a plain INSERT into a table without a unique menu_item_id
InsertOnly(table, ad, hotel_id, n_reviews) == Append(table, Row(ad, hotel_id, n_reviews))

\* Upsert for a statement that empties the table before it inserts
UpsertIntoEmptied(table, ad, hotel_id, n_reviews) == <<Row(ad, hotel_id, n_reviews)>>

Upsert(table, ad, hotel_id, n_reviews) ==
    LET new  == Row(ad, hotel_id, n_reviews)
        hits == {i \in 1..Len(table) : table[i].menu_item_id = ad.id}
    IN  IF hits # {}
        THEN [i \in 1..Len(table) |->
                IF i \in hits THEN [new EXCEPT !.hotel_id = table[i].hotel_id]
                ELSE table[i]]
        ELSE Append(table, new)

(***************************************************************************)
(* The ranking (review_analyzer.py 256-260).                               *)
(***************************************************************************)
IsPositive(d) == d.sentiment_score > 0 /\ d.positive_mentions > d.negative_mentions

KeyGreater(a, b) ==
    \/ a.sentiment_score > b.sentiment_score
    \/ a.sentiment_score = b.sentiment_score /\ a.positive_mentions > b.positive_mentions

\* list.sort(key=..., reverse=True) is stable: x goes behind every element
\* whose key is greater than or equal to its own
RECURSIVE InsertDesc(_, _)
InsertDesc(sorted, x) ==
    IF sorted = <<>> THEN <<x>>
    ELSE IF KeyGreater(x, Head(sorted)) THEN <<x>> \o sorted
    ELSE <<Head(sorted)>> \o InsertDesc(Tail(sorted), x)

\* SortDesc without the sort of 257
NoSort(ds) == ds

RECURSIVE SortDesc(_)
SortDesc(ds) ==
    IF ds = <<>> THEN <<>>
    ELSE InsertDesc(SortDesc(SubSeq(ds, 1, Len(ds) - 1)), ds[Len(ds)])

\* s[:n] for any int n
Slice(s, n) ==
    IF n >= 0 THEN Take(s, n)
    ELSE Take(s, IF Len(s) + n > 0 THEN Len(s) + n ELSE 0)

positive_dishes(ds) == SortDesc(SelectSeq(ds, IsPositive))

limited_dishes(ds, lim) == Slice(positive_dishes(ds), lim)

formatted_chunk(ds, lim) ==
    LET l == limited_dishes(ds, lim) IN [i \in 1..Len(l) |-> l[i].id]

(***************************************************************************)
(* The data the model runs on: the venue's catalog, and the answers the    *)
(* inference service can give to a prompt.                                 *)
(***************************************************************************)
Obs(name, pos, neg, neu, score, kw, td, summary) ==
    [name |-> name, positive_mentions |-> pos, negative_mentions |-> neg,
     neutral_mentions |-> neu, sentiment_score |-> score, top_keywords |-> kw,
     taste_descriptors |-> td, summary |-> summary, bad |-> {}]

DalFry == <<"D","a","l"," ","F","r","y">>
Naan == <<"N","a","a","n">>
Chai == <<"C","h","a","i">>

Catalogs ==
    { <<>>,
      <<[id |-> 1, name |-> DalFry], [id |-> 2, name |-> Naan],
        [id |-> 3, name |-> Chai]>> }

ObsDalBig == Obs(<<"d","a","l">>, 2, 0, 0, One, <<"rich">>, <<"creamy">>, <<"a">>)
ObsDalFrySmall == Obs(DalFry, 1, 0, 1, 1, <<"spicy">>, <<>>, <<"b">>)
ObsNaanPos == Obs(<<"n","a","a","n">>, 1, 0, 0, One \div 2, <<>>, <<>>, <<"c">>)
ObsNaanNeg == Obs(Naan, 0, 2, 0, -One, <<"cold">>, <<>>, <<"d">>)
ObsChaiPos == Obs(<<"c","h","a","i">>, 2, 0, 0, One \div 2, <<>>, <<>>, <<>>)
ObsTea == Obs(<<"t","e","a">>, 3, 0, 0, One, <<>>, <<>>, <<"e">>)
ObsBlank == Obs(<<" ">>, 1, 0, 0, One, <<>>, <<>>, <<>>)
ObsNoName == Obs(<<>>, 1, 0, 0, One, <<>>, <<>>, <<>>)
ObsChaiBadNeg == [ObsChaiPos EXCEPT !.bad = {"negative_mentions"}]

Answer(raises, content) == [raises |-> raises, content |-> content]

ResponsePool ==
    { Answer(FALSE, <<Prose, LB, Body(<<ObsDalBig, ObsNaanPos>>), RB>>),
      Answer(FALSE, <<LB, Body(<<ObsDalFrySmall, ObsDalFrySmall, ObsChaiPos, ObsBlank>>),
                      RB, Prose>>),
      Answer(FALSE, <<LB, Body(<<ObsNaanNeg, ObsTea, ObsNoName, ObsChaiBadNeg, ObsChaiPos>>),
                      RB>>),
      Answer(FALSE, <<Prose>>),
      Answer(FALSE, <<LB, Prose, RB>>),
      Answer(TRUE, <<>>) }

Limits == -1..MaxLimit

(***************************************************************************)
(* State.                                                                  *)
(***************************************************************************)
VARIABLES
    reviews,            \* table reviews: the ids of the venue's rows with a comment
    catalog,            \* the venue's menu rows, in the order the query returns them
    responses,          \* the inference service's answer to each prompt
    store,              \* table dish_review_analytics, as committed
    run,                \* number of requests made so far
    pc,                 \* where the generator of the current request stands
    limit,              \* parameter limit of the current request
    review_results, prompts, menu_items,
    settled,            \* the tasks that have returned or raised
    ready,              \* the settled tasks as_completed has not handed out yet
    consumed,           \* iterations of the loop over as_completed done
    completed_count, aggregated_dishes, all_valid_dishes,
    txn_open, txn,      \* the transaction of engine.begin()
    upserted,           \* upsert statements executed in the transaction
    events,             \* what the current request has yielded so far
    llm_calls, menu_loads, writes,  \* calls of this run: ainvoke, menu query, upsert
    store_pre,          \* store when the current request started
    exc,                \* the statement whose exception ended the request, or "none"
    order,              \* the tasks in the order the loop has received them
    m_name, m_items, m_result,     \* input and result of a matcher call
    p_content, p_result,           \* input and result of a parser call
    in_batch, merging,             \* the task whose dishes the loop of 127 is
                                   \* going through, and the dishes still to come
    s_entry, s_scored,             \* input and result of a scorer call
    hotel_id                       \* parameter hotel_id of the current request

pipeline_vars ==
    <<reviews, catalog, responses, store, run, pc, limit, review_results, prompts,
      menu_items, settled, ready, consumed, completed_count, aggregated_dishes,
      all_valid_dishes, txn_open, txn, upserted, events, llm_calls,
      menu_loads, writes, store_pre, exc, order>>
matcher_vars == <<m_name, m_items, m_result>>
parser_vars == <<p_content, p_result>>
merge_vars == <<in_batch, merging>>
scorer_vars == <<s_entry, s_scored>>
vars == <<pipeline_vars, matcher_vars, parser_vars, merge_vars, scorer_vars, hotel_id>>

EmptyTable == <<>>

\* total_chunks (54)
total_chunks(n) == (n + chunk_size - 1) \div chunk_size

\* ORDER BY id DESC
RowsDesc(n) == [i \in 1..n |-> n + 1 - i]

\* Chunks for a loop that stops before a chunk that would not be full
FullChunksOnly(rows) ==
    [c \in 1..(Len(rows) \div chunk_size) |->
        SubSeq(rows, (c - 1) * chunk_size + 1, c * chunk_size)]

\* the chunks of 84-85, one prompt each
Chunks(rows) ==
    [c \in 1..total_chunks(Len(rows)) |->
        SubSeq(rows, (c - 1) * chunk_size + 1,
               IF c * chunk_size < Len(rows) THEN c * chunk_size ELSE Len(rows))]

Init ==
    /\ reviews \in 0..MaxReviews
    /\ catalog \in Catalogs
    /\ responses \in [1..total_chunks(reviews) -> ResponsePool]
    /\ store = EmptyTable
    /\ run = 0
    /\ pc = "idle"
    /\ limit = 0
    /\ review_results = <<>> /\ prompts = <<>> /\ menu_items = <<>>
    /\ settled = {} /\ ready = <<>> /\ consumed = 0
    /\ completed_count = 0 /\ aggregated_dishes = <<>> /\ all_valid_dishes = <<>>
    /\ txn_open = FALSE /\ txn = EmptyTable /\ upserted = 0
    /\ events = <<>>
    /\ llm_calls = 0 /\ menu_loads = 0 /\ writes = 0
    /\ store_pre = EmptyTable
    /\ exc = "none" /\ order = <<>>
    /\ m_name = <<>> /\ m_items = <<>> /\ m_result = 0
    /\ p_content = <<>> /\ p_result = <<>>
    /\ in_batch = 0 /\ merging = <<>>
    /\ s_entry = <<>> /\ s_scored = <<>>
    /\ hotel_id = HotelId

(***************************************************************************)
(* main.get_agent_recommendations: a request starts a fresh generator.     *)
(***************************************************************************)
get_agent_recommendations(h, l) ==
    /\ pc \in {"idle", "done"}
    /\ run < MaxRuns
    /\ run' = run + 1
    /\ hotel_id' = h
    /\ limit' = l
    /\ pc' = "load_reviews"
    /\ review_results' = <<>> /\ prompts' = <<>> /\ menu_items' = <<>>
    /\ settled' = {} /\ ready' = <<>> /\ consumed' = 0
    /\ completed_count' = 0 /\ aggregated_dishes' = <<>> /\ all_valid_dishes' = <<>>
    /\ txn_open' = FALSE /\ txn' = EmptyTable /\ upserted' = 0
    /\ events' = <<>>
    /\ llm_calls' = 0 /\ menu_loads' = 0 /\ writes' = 0
    /\ store_pre' = store
    /\ exc' = "none" /\ order' = <<>>
    /\ UNCHANGED <<reviews, catalog, responses, store, matcher_vars, parser_vars, merge_vars, scorer_vars>>

Yield(ev) == events' = Append(events, ev)

\* the keys found in the entries of a list of n entries with the keys ks
EntryKeys(n, ks) == IF n = 0 THEN {} ELSE ks

\* 260-261: data: [{"id": ...}, ...]
data_event(ids) ==
    [type |-> "data", ids |-> ids, keys |-> EntryKeys(Len(ids), {"id"}),
     message |-> ""]

\* error_event for an except clause that answers with an empty list
ErrorAsEmptyList(e) == [type |-> "data", ids |-> <<>>, keys |-> {}, message |-> ""]

\* 270: {"type": "error", "message": str(e)}
error_event(e) == [type |-> "error", ids |-> <<>>, keys |-> {}, message |-> e]

(***************************************************************************)
(* analyze_reviews_with_agent, one action per stretch between two points   *)
(* where it waits for the database, the event loop or its consumer.        *)
(***************************************************************************)
\* NoReviews without the early return of 50-51
NeverReturnEarly(rows) == FALSE

\* 50: if not review_results
NoReviews(rows) == rows = <<>>

\* AfterReviewsLoaded for a generator that builds the tasks without the
\* block 91-104
DispatchWithoutMenu == "dispatch"

\* 83-91: where the generator goes once the prompts are built
AfterReviewsLoaded == "load_menu"

\* 41-88: the review query, the early return, the prompts
LoadReviews ==
    /\ pc = "load_reviews"
    /\ \/ /\ pc' = "except"                       \* connect or execute raises
          /\ exc' = "review_query"
          /\ UNCHANGED <<review_results, prompts>>
       \/ /\ review_results' = RowsDesc(reviews)
          /\ IF NoReviews(RowsDesc(reviews))
             THEN pc' = "done" /\ prompts' = prompts   \* `return` of line 51
             ELSE pc' = AfterReviewsLoaded /\ prompts' = Chunks(RowsDesc(reviews))
          /\ UNCHANGED exc
    /\ UNCHANGED <<reviews, catalog, responses, store, run, limit, menu_items,
                   settled, ready, consumed, completed_count, aggregated_dishes,
                   all_valid_dishes, txn_open, txn, upserted, events, llm_calls,
                   menu_loads, writes, store_pre, order, matcher_vars, parser_vars, merge_vars, scorer_vars, hotel_id>>

\* the tables menu_items, menu_categories and menus joined: the rows of the
\* venue HotelId, which are catalog, and those of a second venue, which sells
\* a chai and a dal of its own
OtherVenue == 2
Venues == {HotelId, OtherVenue}
OtherCatalog == <<[id |-> 4, name |-> Chai], [id |-> 5, name |-> <<"D","a","l">>]>>
MenuTable(cat) ==
    [i \in 1..Len(cat) |-> [id |-> cat[i].id, name |-> cat[i].name, hotel_id |-> HotelId]]
    \o [i \in 1..Len(OtherCatalog) |->
           [id |-> OtherCatalog[i].id, name |-> OtherCatalog[i].name,
            hotel_id |-> OtherVenue]]

\* menu_query without its WHERE clause
menu_query_all(table, h) ==
    [i \in 1..Len(table) |-> [id |-> table[i].id, name |-> table[i].name]]

\* 93-104: SELECT m.id, m.name ... WHERE mn.hotel_id = :hotel_id
menu_query(table, h) ==
    LET OfVenue(r) == r.hotel_id = h
        rows == SelectSeq(table, OfVenue)
    IN  [i \in 1..Len(rows) |-> [id |-> rows[i].id, name |-> rows[i].name]]

\* 91-104: the menu query
LoadMenu ==
    /\ pc = "load_menu"
    /\ menu_loads' = menu_loads + 1              \* the block 91-104 is entered
    /\ \/ /\ pc' = "except"                       \* connect or execute raises
          /\ exc' = "menu_query"
          /\ UNCHANGED menu_items
       \/ /\ menu_items' = menu_query(MenuTable(catalog), hotel_id)
          /\ pc' = "dispatch"
          /\ UNCHANGED exc
    /\ UNCHANGED <<reviews, catalog, responses, store, run, limit, review_results,
                   prompts, settled, ready, consumed, completed_count,
                   aggregated_dishes, all_valid_dishes, txn_open, txn, upserted,
                   events, llm_calls, writes, store_pre, order,
                   matcher_vars, parser_vars, merge_vars, scorer_vars, hotel_id>>

\* tasks for a generator that calls the model for its first prompt only
SingleCall(ps) == <<1>>

\* 111: tasks = [llm.ainvoke(prompt) for prompt in prompts]; each task is
\* named by the index of its prompt
tasks(ps) == [i \in 1..Len(ps) |-> i]

\* 111-115: one ainvoke per prompt, handed to as_completed
Dispatch ==
    /\ pc = "dispatch"
    /\ llm_calls' = llm_calls + Len(tasks(prompts))
    /\ pc' = "gather"
    /\ UNCHANGED <<reviews, catalog, responses, store, run, limit, review_results,
                   prompts, menu_items, settled, ready, consumed, completed_count,
                   aggregated_dishes, all_valid_dishes, txn_open, txn, upserted,
                   events, menu_loads, writes, store_pre, exc, order,
                   matcher_vars, parser_vars, merge_vars, scorer_vars, hotel_id>>

\* the event loop: while the generator waits in `await task`, a call that
\* is still running returns or raises
Settle(b) ==
    /\ pc = "gather"
    /\ b \in 1..llm_calls
    /\ b \notin settled
    /\ settled' = settled \cup {b}
    /\ ready' = Append(ready, b)
    /\ UNCHANGED <<reviews, catalog, responses, store, run, pc, limit, review_results,
                   prompts, menu_items, consumed, completed_count, aggregated_dishes,
                   all_valid_dishes, txn_open, txn, upserted, events, llm_calls,
                   menu_loads, writes, store_pre, exc, order,
                   matcher_vars, parser_vars, merge_vars, scorer_vars, hotel_id>>

\* LoopDone for a loop left after the first task
LoopDoneAfterFirst(n_consumed, n_tasks) == n_consumed >= 1

\* 115: the loop over as_completed has handed out every task
LoopDone(n_consumed, n_tasks) == n_consumed = n_tasks

\* 116-177: the try block of one iteration, for the task handed out; the
\* await re-raises what the call raised, before completed_count is counted
TryBlock(agg, count, response, items) ==
    IF response.raises
    THEN [agg |-> agg, completed_count |-> count, err |-> TRUE]
    ELSE LET r == ProcessContent(agg, response.content, items)
         IN  [agg |-> r.agg, completed_count |-> count + 1, err |-> r.err]

\* AfterBatchException without the try/except of 116 and 179: the exception
\* reaches the except clause of 267
BatchExceptionPropagates == "except"

\* 179-181: where the generator stands after the except clause of the loop
\* body, which prints the traceback and goes on with the next task
AfterBatchException == "gather"

\* 115-181: one iteration of the loop over as_completed
Consume ==
    /\ pc = "gather"
    /\ ~LoopDone(consumed, llm_calls)
    /\ ready # <<>>
    /\ LET r == TryBlock(aggregated_dishes, completed_count,
                         responses[Head(ready)], menu_items)
       IN  /\ completed_count' = r.completed_count
           /\ aggregated_dishes' = r.agg
           /\ pc' = IF r.err THEN AfterBatchException ELSE "gather"
    /\ exc' = IF pc' = "except" THEN "batch" ELSE exc
    /\ order' = Append(order, Head(ready))
    /\ ready' = Tail(ready)
    /\ consumed' = consumed + 1
    /\ UNCHANGED <<reviews, catalog, responses, store, run, limit, review_results,
                   prompts, menu_items, settled, all_valid_dishes, txn_open, txn,
                   upserted, events, llm_calls, menu_loads, writes, store_pre,
                   matcher_vars, parser_vars, merge_vars, scorer_vars, hotel_id>>

\* 184-206: the scoring loop; all_valid_dishes holds the scored entries
Score ==
    /\ pc = "gather"
    /\ LoopDone(consumed, llm_calls)
    /\ \E sc \in ScoreAll(aggregated_dishes) :
          /\ all_valid_dishes' = sc
          /\ pc' = IF sc # <<>> THEN "begin" ELSE "done"
    /\ UNCHANGED <<reviews, catalog, responses, store, run, limit, review_results,
                   prompts, menu_items, settled, ready, consumed, completed_count,
                   aggregated_dishes, txn_open, txn, upserted, events, llm_calls,
                   menu_loads, writes, store_pre, exc, order,
                   matcher_vars, parser_vars, merge_vars, scorer_vars, hotel_id>>

\* AfterRollback for a connection that commits each statement as it goes
\* (engine.connect() with autocommit in place of engine.begin())
NoRollback(committed, working) == working

\* the table after `with engine.begin()` is left by an exception, and after
\* it is left normally
AfterRollback(committed, working) == committed
\* AfterCommit for a connection whose commit is dropped
CommitLost(committed, working) == committed
AfterCommit(committed, working) == working

\* 207: engine.begin()
BeginTxn ==
    /\ pc = "begin"
    /\ \/ /\ pc' = "except"
          /\ exc' = "begin"
          /\ UNCHANGED <<txn_open, txn>>
       \/ /\ txn_open' = TRUE
          /\ txn' = store
          /\ pc' = "upsert"
          /\ UNCHANGED exc
    /\ UNCHANGED <<reviews, catalog, responses, store, run, limit, review_results,
                   prompts, menu_items, settled, ready, consumed, completed_count,
                   aggregated_dishes, all_valid_dishes, upserted, events, llm_calls,
                   menu_loads, writes, store_pre, order, matcher_vars, parser_vars, merge_vars, scorer_vars, hotel_id>>

\* 208-253: one iteration of the loop over all_valid_dishes
UpsertStep ==
    /\ pc = "upsert"
    /\ upserted < Len(all_valid_dishes)
    /\ writes' = writes + 1
    /\ \/ /\ pc' = "except"                       \* execute raises: rollback
          /\ exc' = "upsert"
          /\ txn_open' = FALSE
          /\ txn' = EmptyTable
          /\ store' = AfterRollback(store, txn)
          /\ UNCHANGED upserted
       \/ /\ txn' = Upsert(txn, all_valid_dishes[upserted + 1], hotel_id,
                           Len(review_results))
          /\ upserted' = upserted + 1
          /\ UNCHANGED <<pc, txn_open, store, exc>>
    /\ UNCHANGED <<reviews, catalog, responses, run, limit, review_results, prompts,
                   menu_items, settled, ready, consumed, completed_count,
                   aggregated_dishes, all_valid_dishes, events, llm_calls,
                   menu_loads, store_pre, order, matcher_vars, parser_vars, merge_vars, scorer_vars, hotel_id>>

\* the end of the with block of 207: commit
Commit ==
    /\ pc = "upsert"
    /\ upserted = Len(all_valid_dishes)
    /\ txn_open' = FALSE
    /\ txn' = EmptyTable
    /\ \/ /\ pc' = "except"                       \* commit raises
          /\ exc' = "commit"
          /\ store' = AfterRollback(store, txn)
       \/ /\ pc' = "emit"
          /\ store' = AfterCommit(store, txn)
          /\ UNCHANGED exc
    /\ UNCHANGED <<reviews, catalog, responses, run, limit, review_results, prompts,
                   menu_items, settled, ready, consumed, completed_count,
                   aggregated_dishes, all_valid_dishes, upserted, events, llm_calls,
                   menu_loads, writes, store_pre, order, matcher_vars, parser_vars, merge_vars, scorer_vars, hotel_id>>

\* 256-261: the terminal data event
EmitData ==
    /\ pc = "emit"
    /\ Yield(data_event(formatted_chunk(all_valid_dishes, limit)))
    /\ pc' = "yielded"
    /\ UNCHANGED <<reviews, catalog, responses, store, run, limit, review_results,
                   prompts, menu_items, settled, ready, consumed, completed_count,
                   aggregated_dishes, all_valid_dishes, txn_open, txn, upserted,
                   llm_calls, menu_loads, writes, store_pre, exc, order,
                   matcher_vars, parser_vars, merge_vars, scorer_vars, hotel_id>>

\* 267-270: the error event
EmitError ==
    /\ pc = "except"
    /\ Yield(error_event(exc))
    /\ pc' = "yielded"
    /\ UNCHANGED <<reviews, catalog, responses, store, run, limit, review_results,
                   prompts, menu_items, settled, ready, consumed, completed_count,
                   aggregated_dishes, all_valid_dishes, txn_open, txn, upserted,
                   llm_calls, menu_loads, writes, store_pre, exc, order,
                   matcher_vars, parser_vars, merge_vars, scorer_vars, hotel_id>>

\* AfterYield for a generator whose statements after the yield of the data
\* event raise inside the try block
RaiseAfterDataYield(type) == IF type = "data" THEN "except" ELSE "done"

\* where a generator stands once the consumer has taken its event: 261 and
\* 270 of review_analyzer.py, 52 and 57 of get_reviews_from_db.py are each
\* the last statement on their path but for prints
AfterYield(type) == "done"

\* the consumer asks for the next event and the generator ends (263-265, or
\* the end of the except clause)
Finish ==
    /\ pc = "yielded"
    /\ pc' = AfterYield(events[Len(events)].type)
    /\ UNCHANGED <<reviews, catalog, responses, store, run, limit, review_results,
                   prompts, menu_items, settled, ready, consumed, completed_count,
                   aggregated_dishes, all_valid_dishes, txn_open, txn, upserted,
                   events, llm_calls, menu_loads, writes, store_pre, exc, order, matcher_vars, parser_vars, merge_vars, scorer_vars, hotel_id>>

Next ==
    \/ \E l \in Limits : get_agent_recommendations(HotelId, l)
    \/ LoadReviews
    \/ LoadMenu
    \/ Dispatch
    \/ \E b \in 1..total_chunks(MaxReviews) : Settle(b)
    \/ Consume
    \/ Score
    \/ BeginTxn
    \/ UpsertStep
    \/ Commit
    \/ EmitData
    \/ EmitError
    \/ Finish

Spec == Init /\ [][Next]_vars

(***************************************************************************)
(* The pipeline asked for either of two venues.                            *)
(***************************************************************************)
NextVenues ==
    \/ \E h \in Venues : get_agent_recommendations(h, MaxLimit)
    \/ LoadReviews
    \/ LoadMenu
    \/ Dispatch
    \/ \E b \in 1..total_chunks(MaxReviews) : Settle(b)
    \/ Consume
    \/ Score
    \/ BeginTxn
    \/ UpsertStep
    \/ Commit
    \/ EmitData
    \/ EmitError
    \/ Finish

SpecVenues == Init /\ [][NextVenues]_vars

(***************************************************************************)
(* The stored-records read path (get_reviews_from_db.py), and the service  *)
(* with both of its streaming endpoints.                                   *)
(***************************************************************************)
\* 43-52: data: [{"id": ..., "hotel_id": ..., "sentiment_score": ...}, ...]
db_data_event(ids) ==
    [type |-> "data", ids |-> ids,
     keys |-> EntryKeys(Len(ids), {"id", "hotel_id", "sentiment_score"}),
     message |-> ""]

\* 57: data: {"type": "error", "message": str(e)}
db_error_event(e) == [type |-> "error", ids |-> <<>>, keys |-> {}, message |-> e]

\* WHERE of 28-31
DbQualifies(row, hid) ==
    /\ row.hotel_id = hid
    /\ row.sentiment_score > 0
    /\ row.positive_mentions > row.negative_mentions

\* ORDER BY of 32-35: a must come before b.  dated holds the menu_item_ids
\* that recent_reviews has a row for (all with the same date here), the
\* others have NULL
DbBefore(a, b, dated) ==
    LET da == a.menu_item_id \in dated
        db == b.menu_item_id \in dated
    IN  \/ da /\ ~db
        \/ /\ da = db
           /\ \/ a.sentiment_score > b.sentiment_score
              \/ /\ a.sentiment_score = b.sentiment_score
                 /\ a.popularity_score > b.popularity_score

\* the results the query of 12-40 can return for a limit >= 0: the
\* qualifying rows in an order ORDER BY allows, cut by LIMIT
DbResults(table, hid, lim, dated) ==
    LET Q == {i \in 1..Len(table) : DbQualifies(table[i], hid)}
        n == Cardinality(Q)
    IN  {[k \in 1..(IF lim < n THEN lim ELSE n) |-> table[p[k]]] :
            p \in {q \in [1..n -> Q] :
                      /\ \A i, j \in 1..n : i # j => q[i] # q[j]
                      /\ \A i, j \in 1..n :
                            i < j => ~DbBefore(table[q[j]], table[q[i]], dated)}}

\* main.get_db_recommendations_endpoint: a request starts a fresh generator
get_db_recommendations_endpoint(h, l) ==
    /\ pc \in {"idle", "done"}
    /\ run < MaxRuns
    /\ run' = run + 1
    /\ hotel_id' = h
    /\ limit' = l
    /\ pc' = "db_query"
    /\ review_results' = <<>> /\ prompts' = <<>> /\ menu_items' = <<>>
    /\ settled' = {} /\ ready' = <<>> /\ consumed' = 0
    /\ completed_count' = 0 /\ aggregated_dishes' = <<>> /\ all_valid_dishes' = <<>>
    /\ txn_open' = FALSE /\ txn' = EmptyTable /\ upserted' = 0
    /\ events' = <<>>
    /\ llm_calls' = 0 /\ menu_loads' = 0 /\ writes' = 0
    /\ store_pre' = store
    /\ exc' = "none" /\ order' = <<>>
    /\ UNCHANGED <<reviews, catalog, responses, store, matcher_vars, parser_vars, merge_vars, scorer_vars>>

\* 12-52: the query, the formatting and the data event.  The query raises
\* when the database does, and always for a negative LIMIT; json.dumps
\* raises when the driver hands sentiment_score over as a Decimal
get_db_recommendations ==
    /\ pc = "db_query"
    /\ \/ /\ pc' = "db_except"
          /\ exc' = "db_query"
          /\ UNCHANGED events
       \/ /\ limit >= 0
          /\ \E dated \in SUBSET Keys(store) :
                \E results \in DbResults(store, hotel_id, limit, dated) :
                    Yield(db_data_event([k \in 1..Len(results) |->
                                            results[k].menu_item_id]))
          /\ pc' = "yielded"
          /\ UNCHANGED exc
    /\ UNCHANGED <<reviews, catalog, responses, store, run, limit, review_results,
                   prompts, menu_items, settled, ready, consumed, completed_count,
                   aggregated_dishes, all_valid_dishes, txn_open, txn, upserted,
                   llm_calls, menu_loads, writes, store_pre, order,
                   matcher_vars, parser_vars, merge_vars, scorer_vars, hotel_id>>

\* 54-57: the error event of the read path
DbEmitError ==
    /\ pc = "db_except"
    /\ Yield(db_error_event(exc))
    /\ pc' = "yielded"
    /\ UNCHANGED <<reviews, catalog, responses, store, run, limit, review_results,
                   prompts, menu_items, settled, ready, consumed, completed_count,
                   aggregated_dishes, all_valid_dishes, txn_open, txn, upserted,
                   llm_calls, menu_loads, writes, store_pre, exc, order,
                   matcher_vars, parser_vars, merge_vars, scorer_vars, hotel_id>>

NextStreams ==
    \/ Next
    \/ \E l \in Limits : get_db_recommendations_endpoint(HotelId, l)
    \/ get_db_recommendations
    \/ DbEmitError

SpecStreams == Init /\ [][NextStreams]_vars

(***************************************************************************)
(* Cancellation.  When the caller disconnects, the task that iterates the  *)
(* generator is cancelled: CancelledError is raised at the await the       *)
(* generator is suspended in, which is `await task` of line 117 (the       *)
(* database calls are synchronous and the generator does not give up       *)
(* control between the end of the loop and its yield).                     *)
(***************************************************************************)
\* AfterCancelled for handlers that catch BaseException: the except clause
\* of 179 takes the cancellation for a failed batch and the loop goes on
CancelledCaughtInLoop == "gather"

\* `except Exception` of 179 and of 267 let CancelledError pass: the
\* generator ends
AfterCancelled == "done"

Cancel ==
    /\ pc = "gather"
    /\ ~LoopDone(consumed, llm_calls)
    /\ pc' = AfterCancelled
    /\ exc' = IF pc' = "done" THEN "cancelled" ELSE exc
    /\ consumed' = IF pc' = "done" THEN consumed ELSE consumed + 1
    /\ UNCHANGED <<reviews, catalog, responses, store, run, limit, review_results,
                   prompts, menu_items, settled, ready, completed_count,
                   aggregated_dishes, all_valid_dishes, txn_open, txn, upserted,
                   events, llm_calls, menu_loads, writes, store_pre, order,
                   matcher_vars, parser_vars, merge_vars, scorer_vars, hotel_id>>

NextCancel ==
    \/ Next
    \/ Cancel

SpecCancel == Init /\ [][NextCancel]_vars

(***************************************************************************)
(* The loop over as_completed statement by statement: the await of 117,    *)
(* then one step per dish of the loop of 127.  Other coroutines and        *)
(* callbacks of the event loop run only while the generator is suspended.  *)
(***************************************************************************)
\* GeneratorSuspended for a loop over the dishes that awaits in its body
AwaitInDishLoop == TRUE

\* the generator is suspended only in `await task` (117): lines 118-177
\* hold no await
GeneratorSuspended == in_batch = 0

\* a call returns or raises; its callback runs when the event loop does
SettleWhileSuspended(b) ==
    /\ GeneratorSuspended
    /\ Settle(b)

\* 117-127: the await returns the next settled task; the answer is decoded
Receive ==
    /\ pc = "gather"
    /\ in_batch = 0
    /\ ~LoopDone(consumed, llm_calls)
    /\ ready # <<>>
    /\ LET b == Head(ready)
           c == chunk_dishes(responses[b].content)
       IN  /\ order' = Append(order, b)
           /\ ready' = Tail(ready)
           /\ completed_count' =
                 IF responses[b].raises THEN completed_count ELSE completed_count + 1
           /\ IF responses[b].raises \/ c.err \/ c.dishes = <<>>
              THEN /\ consumed' = consumed + 1      \* 179-181, 122 or an empty loop
                   /\ UNCHANGED <<in_batch, merging>>
              ELSE /\ in_batch' = b
                   /\ merging' = c.dishes
                   /\ UNCHANGED consumed
    /\ UNCHANGED <<reviews, catalog, responses, store, run, pc, limit, review_results,
                   prompts, menu_items, settled, aggregated_dishes, all_valid_dishes,
                   txn_open, txn, upserted, events, llm_calls, menu_loads, writes,
                   store_pre, exc, matcher_vars, parser_vars, scorer_vars, hotel_id>>

\* 128-177: one iteration of the loop over chunk_dishes
MergeOne ==
    /\ pc = "gather"
    /\ in_batch # 0
    /\ LET m == MergeDish(aggregated_dishes, Head(merging), menu_items)
       IN  /\ aggregated_dishes' = m.agg
           /\ IF m.err \/ Len(merging) = 1
              THEN /\ in_batch' = 0
                   /\ merging' = <<>>
                   /\ consumed' = consumed + 1
              ELSE /\ merging' = Tail(merging)
                   /\ UNCHANGED <<in_batch, consumed>>
    /\ UNCHANGED <<reviews, catalog, responses, store, run, pc, limit, review_results,
                   prompts, menu_items, settled, ready, completed_count,
                   all_valid_dishes, txn_open, txn, upserted, events, llm_calls,
                   menu_loads, writes, store_pre, exc, order,
                   matcher_vars, parser_vars, scorer_vars, hotel_id>>

NextMerge ==
    \/ \E l \in Limits : get_agent_recommendations(HotelId, l)
    \/ LoadReviews
    \/ LoadMenu
    \/ Dispatch
    \/ \E b \in 1..total_chunks(MaxReviews) : SettleWhileSuspended(b)
    \/ Receive
    \/ MergeOne

SpecMerge == Init /\ [][NextMerge]_vars

(***************************************************************************)
(* The matcher on its own: a dish name and a catalog drawn from bounded    *)
(* sets, and one call of the matcher on them.                              *)
(***************************************************************************)
SeqsUpTo(S, n) == UNION {[1..k -> S] : k \in 0..n}

MatcherNames == SeqsUpTo({"a", "B", " "}, MaxNameLen)
MatcherItemNames == {<<"a">>, <<"A", "b">>, <<"b", " ", "a">>, <<"B">>}
MatcherCatalogs ==
    {[i \in 1..Len(names) |-> [id |-> i, name |-> names[i]]] :
        names \in SeqsUpTo(MatcherItemNames, MaxCatalog)}

InitMatch ==
    /\ reviews = 0 /\ catalog = <<>> /\ responses = <<>>
    /\ store = EmptyTable
    /\ run = 0
    /\ pc = "idle"
    /\ limit = 0
    /\ review_results = <<>> /\ prompts = <<>> /\ menu_items = <<>>
    /\ settled = {} /\ ready = <<>> /\ consumed = 0
    /\ completed_count = 0 /\ aggregated_dishes = <<>> /\ all_valid_dishes = <<>>
    /\ txn_open = FALSE /\ txn = EmptyTable /\ upserted = 0
    /\ events = <<>>
    /\ llm_calls = 0 /\ menu_loads = 0 /\ writes = 0
    /\ store_pre = EmptyTable
    /\ exc = "none" /\ order = <<>>
    /\ m_name \in MatcherNames
    /\ m_items \in MatcherCatalogs
    /\ m_result = <<>>
    /\ p_content = <<>> /\ p_result = <<>>
    /\ in_batch = 0 /\ merging = <<>>
    /\ s_entry = <<>> /\ s_scored = <<>>
    /\ hotel_id = HotelId

\* 128-145 for the dish name m_name against the rows m_items
ApplyMatch ==
    /\ m_result = <<>>
    /\ m_result' = <<Resolve(m_name, m_items)>>
    /\ UNCHANGED <<pipeline_vars, m_name, m_items, parser_vars, merge_vars, scorer_vars, hotel_id>>

NextMatch == ApplyMatch

SpecMatch == InitMatch /\ [][NextMatch]_vars

(***************************************************************************)
(* The response parser on its own: a response content drawn from bounded   *)
(* token sequences, and lines 120-125 run on it.                           *)
(***************************************************************************)
ParserTokens == {LB, RB, Prose, Body(<<ObsNaanPos>>), BodyOther}
ParserContents == SeqsUpTo(ParserTokens, MaxTokens)

InitParse ==
    /\ reviews = 0 /\ catalog = <<>> /\ responses = <<>>
    /\ store = EmptyTable
    /\ run = 0
    /\ pc = "idle"
    /\ limit = 0
    /\ review_results = <<>> /\ prompts = <<>> /\ menu_items = <<>>
    /\ settled = {} /\ ready = <<>> /\ consumed = 0
    /\ completed_count = 0 /\ aggregated_dishes = <<>> /\ all_valid_dishes = <<>>
    /\ txn_open = FALSE /\ txn = EmptyTable /\ upserted = 0
    /\ events = <<>>
    /\ llm_calls = 0 /\ menu_loads = 0 /\ writes = 0
    /\ store_pre = EmptyTable
    /\ exc = "none" /\ order = <<>>
    /\ m_name = <<>> /\ m_items = <<>> /\ m_result = <<>>
    /\ p_content \in ParserContents
    /\ p_result = <<>>
    /\ in_batch = 0 /\ merging = <<>>
    /\ s_entry = <<>> /\ s_scored = <<>>
    /\ hotel_id = HotelId

\* 120-125 for the response content p_content
ApplyParse ==
    /\ p_result = <<>>
    /\ p_result' = <<chunk_dishes(p_content)>>
    /\ UNCHANGED <<pipeline_vars, matcher_vars, p_content, merge_vars, scorer_vars, hotel_id>>

NextParse == ApplyParse

SpecParse == InitParse /\ [][NextParse]_vars

(***************************************************************************)
(* The scorer on its own: an entry of the mapping drawn from bounded       *)
(* sets, and the body of the loop 187-204 run on it.                       *)
(***************************************************************************)
\* sentiment sums: multiples of a quarter from -1 to 2, and the smallest
\* positive quantum
ScoreSums == {k * (One \div 4) : k \in -4..8} \cup {1}

ScoreEntries ==
    {[id |-> 1, dish_name |-> Chai, sentiment_score |-> ss,
      positive_mentions |-> p, negative_mentions |-> n, neutral_mentions |-> u,
      top_keywords |-> <<>>, taste_descriptors |-> <<>>, summary_parts |-> <<>>,
      occurrence_count |-> c] :
        p \in 0..MaxMentions, n \in 0..MaxMentions, u \in 0..MaxMentions,
        c \in 1..MaxCount, ss \in ScoreSums}
    \cup
    \* an entry left at occurrence_count 0 by an exception in 166-169
    {[id |-> 1, dish_name |-> Chai, sentiment_score |-> 0,
      positive_mentions |-> p, negative_mentions |-> n, neutral_mentions |-> u,
      top_keywords |-> <<>>, taste_descriptors |-> <<>>, summary_parts |-> <<>>,
      occurrence_count |-> 0] :
        p \in 0..MaxMentions, n \in 0..MaxMentions, u \in 0..MaxMentions}

\* keyword and descriptor lists of up to MaxKeywords elements, of which the
\* first m are distinct and the others repeat them
KeywordPool ==
    <<"rich", "spicy", "cold", "smoky", "fresh", "crisp", "oily", "sweet",
      "sour", "salty", "bland", "tender", "burnt", "thick">>
DescriptorPool ==
    <<"creamy", "tangy", "nutty", "fiery", "mild", "juicy", "dry", "bitter",
      "earthy", "buttery", "zesty", "silky", "chewy", "flaky">>
WordLists(pool) ==
    {<<>>} \cup
    {[i \in 1..n |-> pool[((i - 1) % m) + 1]] :
        <<n, m>> \in {nm \in (1..MaxKeywords) \X (1..MaxKeywords) : nm[2] <= nm[1]}}

\* a summary fragment of n characters
Chars(n) == [i \in 1..n |-> "x"]
SummaryLists ==
    {<<>>, <<Chars(500)>>, <<Chars(501)>>, <<Chars(250), Chars(249)>>,
     <<Chars(300), Chars(300)>>}

WordEntry(kw, td, parts) ==
    [id |-> 1, dish_name |-> Chai, sentiment_score |-> One,
     positive_mentions |-> 1, negative_mentions |-> 0, neutral_mentions |-> 0,
     top_keywords |-> kw, taste_descriptors |-> td, summary_parts |-> parts,
     occurrence_count |-> 1]

WordEntries ==
    {WordEntry(kw, td, parts) :
        kw \in WordLists(KeywordPool), td \in {<<>>, <<"creamy", "creamy">>},
        parts \in SummaryLists}
    \cup
    {WordEntry(<<>>, td, <<Chars(3)>>) : td \in WordLists(DescriptorPool)}

InitScore ==
    /\ reviews = 0 /\ catalog = <<>> /\ responses = <<>>
    /\ store = EmptyTable
    /\ run = 0
    /\ pc = "idle"
    /\ limit = 0
    /\ review_results = <<>> /\ prompts = <<>> /\ menu_items = <<>>
    /\ settled = {} /\ ready = <<>> /\ consumed = 0
    /\ completed_count = 0 /\ aggregated_dishes = <<>> /\ all_valid_dishes = <<>>
    /\ txn_open = FALSE /\ txn = EmptyTable /\ upserted = 0
    /\ events = <<>>
    /\ llm_calls = 0 /\ menu_loads = 0 /\ writes = 0
    /\ store_pre = EmptyTable
    /\ exc = "none" /\ order = <<>>
    /\ m_name = <<>> /\ m_items = <<>> /\ m_result = <<>>
    /\ p_content = <<>> /\ p_result = <<>>
    /\ in_batch = 0 /\ merging = <<>>
    /\ s_entry \in ScoreEntries \cup WordEntries
    /\ hotel_id = HotelId
    /\ s_scored = <<>>

\* 187-204 for the entry s_entry
ApplyScore ==
    /\ s_scored = <<>>
    /\ \E d \in ScoredVariants(s_entry) : s_scored' = <<d>>
    /\ UNCHANGED <<pipeline_vars, matcher_vars, parser_vars, merge_vars, s_entry, hotel_id>>

\* 207-253 for the one scored entry, into an empty table
PersistScored ==
    /\ s_scored # <<>>
    /\ store = EmptyTable
    /\ store' = Upsert(store, s_scored[1], HotelId, 1)
    /\ UNCHANGED <<reviews, catalog, responses, run, pc, limit, review_results,
                   prompts, menu_items, settled, ready, consumed, completed_count,
                   aggregated_dishes, all_valid_dishes, txn_open, txn, upserted,
                   events, llm_calls, menu_loads, writes, store_pre, exc, order,
                   matcher_vars, parser_vars, merge_vars, scorer_vars, hotel_id>>

NextScore == ApplyScore \/ PersistScored

SpecScore == InitScore /\ [][NextScore]_vars

(***************************************************************************)
(* Properties.                                                             *)
(***************************************************************************)
\* the tasks in the order they were created
SubmissionOrder == [i \in 1..llm_calls |-> i]

\* the mapping after the loop bodies of the tasks ord, in that order
RECURSIVE FoldBatches(_, _, _)
FoldBatches(agg, ord, i) ==
    IF i > Len(ord) THEN agg
    ELSE FoldBatches(TryBlock(agg, 0, responses[ord[i]], menu_items).agg, ord, i + 1)

\* the loop over as_completed of the current request has ended
Gathered == llm_calls > 0 /\ consumed = llm_calls

\* the barrier: the loop has ended and scoring has not begun
AtBarrier == pc = "gather" /\ Gathered

CatalogIds == {catalog[i].id : i \in 1..Len(catalog)}

EntryOf(agg, id) == agg[KeyIndex(agg, id)]

\* what an entry has summed up for one id, without and with the sentiment sum
Counts(agg, id) ==
    IF HasKey(agg, id)
    THEN LET ad == EntryOf(agg, id)
         IN  <<TRUE, ad.positive_mentions, ad.negative_mentions, ad.neutral_mentions,
               ad.occurrence_count, Range(ad.top_keywords), Range(ad.taste_descriptors)>>
    ELSE <<FALSE, 0, 0, 0, 0, {}, {}>>

SentimentSum(agg, id) == IF HasKey(agg, id) THEN EntryOf(agg, id).sentiment_score ELSE 0

\* the sentiment scores of the observations of one answer that are merged
\* into the entry of id
RECURSIVE MergedScores(_, _, _, _)
MergedScores(agg, dishes, i, id) ==
    IF i > Len(dishes) THEN <<>>
    ELSE LET m   == MergeDish(agg, dishes[i], menu_items)
             was == IF HasKey(agg, id) THEN EntryOf(agg, id).occurrence_count ELSE 0
             now == IF HasKey(m.agg, id) THEN EntryOf(m.agg, id).occurrence_count ELSE 0
         IN  (IF now > was THEN <<dishes[i].sentiment_score>> ELSE <<>>)
             \o (IF m.err THEN <<>> ELSE MergedScores(m.agg, dishes, i + 1, id))

RECURSIVE AllMergedScores(_, _)
AllMergedScores(b, id) ==
    IF b > llm_calls THEN <<>>
    ELSE (IF responses[b].raises THEN <<>>
          ELSE MergedScores(<<>>, chunk_dishes(responses[b].content).dishes, 1, id))
         \o AllMergedScores(b + 1, id)

RECURSIVE SumSeq(_)
SumSeq(xs) == IF xs = <<>> THEN 0 ELSE Head(xs) + SumSeq(Tail(xs))

AbsSeq(xs) == [i \in 1..Len(xs) |-> Abs(xs[i])]

\* C1 as claimed: whatever the order in which the calls complete, every
\* catalog id ends the loop with the mention sums, occurrence_count,
\* sentiment sum and keyword and descriptor sets it has when the calls
\* complete in submission order.
C1_AnyOrderSameAggregate ==
    AtBarrier =>
        LET canon == FoldBatches(<<>>, SubmissionOrder, 1)
        IN  \A id \in CatalogIds :
               /\ Counts(aggregated_dishes, id) = Counts(canon, id)
               /\ SentimentSum(aggregated_dishes, id) = SentimentSum(canon, id)

\* C1 amended: whatever the order in which the calls complete, every catalog
\* id ends the loop with the same mention sums, occurrence_count and keyword
\* and descriptor sets; its sentiment sum is the same up to floating-point
\* rounding only: with n observations merged it lies within
\* (n-1)u/(1-(n-1)u) * sum|score| of the exact sum, u = 2^-MantBits.
C1_AnyOrderSameUpToRounding ==
    AtBarrier =>
        LET canon == FoldBatches(<<>>, SubmissionOrder, 1)
        IN  \A id \in CatalogIds :
               /\ Counts(aggregated_dishes, id) = Counts(canon, id)
               /\ LET xs == AllMergedScores(1, id)
                      n  == Len(xs)
                      s  == SentimentSum(aggregated_dishes, id)
                  IN  /\ n = Counts(aggregated_dishes, id)[5]
                      /\ n <= 1 => s = SumSeq(xs)
                      /\ n > 1 => Abs(s - SumSeq(xs)) * (Pow2(MantBits) - (n - 1))
                                    <= (n - 1) * SumSeq(AbsSeq(xs))

\* C1 witness: two calls completed in the reverse of submission order and an
\* entry merged from three observations whose sentiment sum differs from the
\* sum in submission order.
C1_Witness ==
    /\ AtBarrier
    /\ order = <<2, 1>>
    /\ \E id \in CatalogIds :
          /\ Counts(aggregated_dishes, id)[5] >= 3
          /\ SentimentSum(aggregated_dishes, id)
               # SentimentSum(FoldBatches(<<>>, SubmissionOrder, 1), id)


(***************************************************************************)
(* The ranked list.                                                        *)
(***************************************************************************)
DataEvents == {events[i] : i \in {j \in 1..Len(events) : events[j].type = "data"}}
ErrorEvents == {events[i] : i \in {j \in 1..Len(events) : events[j].type = "error"}}

ScoredOf(id) ==
    all_valid_dishes[CHOOSE i \in 1..Len(all_valid_dishes) : all_valid_dishes[i].id = id]

QualifiesAsPositive(d) ==
    d.sentiment_score > 0 /\ d.positive_mentions > d.negative_mentions

NumPositive ==
    Cardinality({i \in 1..Len(all_valid_dishes) : QualifiesAsPositive(all_valid_dishes[i])})

\* (a) and (b) of C2 for an id list
OnlyPositive(ids) ==
    \A k \in 1..Len(ids) :
        /\ \E i \in 1..Len(all_valid_dishes) : all_valid_dishes[i].id = ids[k]
        /\ QualifiesAsPositive(ScoredOf(ids[k]))

Descending(ids) ==
    \A k \in 1..(Len(ids) - 1) :
        LET a == ScoredOf(ids[k])
            b == ScoredOf(ids[k + 1])
        IN  \/ a.sentiment_score > b.sentiment_score
            \/ /\ a.sentiment_score = b.sentiment_score
               /\ a.positive_mentions >= b.positive_mentions

\* C2 as claimed: for every limit, the ids of the data event are dishes with
\* sentiment_score > 0 and more positive than negative mentions, in
\* descending order of (sentiment_score, positive_mentions), and at most
\* limit many.
C2_RankedListWithinLimit ==
    \A e \in DataEvents :
        /\ OnlyPositive(e.ids)
        /\ Descending(e.ids)
        /\ Len(e.ids) <= limit

\* C2 amended: for every limit the ids of the data event are positive dishes
\* in descending order of (sentiment_score, positive_mentions); they are at
\* most limit many when limit >= 0, and for a negative limit they are the
\* ranked list without its last -limit entries.
C2_RankedListWithinNonNegativeLimit ==
    \A e \in DataEvents :
        /\ OnlyPositive(e.ids)
        /\ Descending(e.ids)
        /\ limit >= 0 => Len(e.ids) <= limit
        /\ limit < 0 =>
             Len(e.ids) = IF NumPositive + limit > 0 THEN NumPositive + limit ELSE 0

\* C2 witness: a data event of two ids with different keys, sorted against
\* the order in which the dishes entered the mapping, and cut by the limit.
C2_Witness ==
    \E e \in DataEvents :
        /\ Len(e.ids) = 2
        /\ limit = 2
        /\ NumPositive = 3
        /\ ScoredOf(e.ids[1]).sentiment_score = ScoredOf(e.ids[2]).sentiment_score
        /\ ScoredOf(e.ids[1]).positive_mentions > ScoredOf(e.ids[2]).positive_mentions
        /\ \E i, j \in 1..Len(all_valid_dishes) :
              /\ i < j
              /\ all_valid_dishes[i].id = e.ids[2]
              /\ all_valid_dishes[j].id = e.ids[1]

\* C3 as claimed: a run that ends without an error, for a venue for which
\* an earlier run on the same reviews, catalog and answers has persisted its
\* records, leaves the store as it found it.
C3_SecondRunSameRecords ==
    (run >= 2 /\ pc = "done" /\ exc = "none" /\ store_pre # EmptyTable)
        => store = store_pre

(***************************************************************************)
(* Malformed answers.                                                      *)
(***************************************************************************)
\* the answer of task b came back and is unparseable: it holds no object
\* span, or the span does not decode
NoObjectSpan(b) == json_match(responses[b].content) = <<>>
DecodingFails(b) ==
    /\ json_match(responses[b].content) # <<>>
    /\ ~JsonValid(json_match(responses[b].content))
Unparseable(b) == ~responses[b].raises /\ (NoObjectSpan(b) \/ DecodingFails(b))
Parseable(b) == ~Unparseable(b)

\* C4: an unparseable answer never ends the run in the except clause, and
\* the mapping after any number of loop iterations, and the list that is
\* scored from it, are those of the same run without the unparseable
\* answers.
C4_MalformedBatchIsNoBatch ==
    /\ exc # "batch"
    /\ (pc = "gather" /\ llm_calls > 0) =>
          aggregated_dishes = FoldBatches(<<>>, SelectSeq(order, Parseable), 1)
    /\ pc = "begin" =>
          all_valid_dishes \in ScoreAll(FoldBatches(<<>>, SelectSeq(order, Parseable), 1))

\* C4 witness: a run that received an answer that does not decode and an
\* answer without an object span, went on, and scored nothing.
C4_Witness ==
    /\ pc = "done"
    /\ exc = "none"
    /\ Len(order) = 2
    /\ DecodingFails(order[1])
    /\ NoObjectSpan(order[2])

\* C4 second witness: a run that received an answer that does not decode
\* first, went on, and streamed the dishes of the other answer.
C4_WitnessData ==
    /\ pc = "done"
    /\ exc = "none"
    /\ Len(order) = 2
    /\ DecodingFails(order[1])
    /\ \E e \in DataEvents : e.ids # <<>>

(***************************************************************************)
(* The run.                                                                *)
(***************************************************************************)
\* C5: a request whose review query returns no rows ends at once: no
\* inference call, no menu query, no transaction, no upsert, no event of
\* either kind, and the store as it was.
C5_NoReviewsNothingDone ==
    (run >= 1 /\ reviews = 0 /\ exc = "none") =>
        /\ pc \in {"load_reviews", "done"}
        /\ llm_calls = 0
        /\ menu_loads = 0 /\ menu_items = <<>>
        /\ writes = 0 /\ ~txn_open
        /\ events = <<>>
        /\ store = store_pre

\* C5 witness: such a request has ended, for a venue with a catalog.
C5_Witness ==
    /\ run >= 1 /\ reviews = 0 /\ exc = "none"
    /\ pc = "done"
    /\ catalog # <<>>

\* C6: once the generator has left the loop over as_completed (to score, to
\* persist, to emit or to end), every call it dispatched has returned or
\* raised.
C6_BarrierBeforeScoring ==
    (llm_calls > 0 /\ pc # "gather") => settled = 1..llm_calls

\* C6 witness: the transaction is about to begin after two calls, one of
\* which raised.
C6_Witness ==
    /\ pc = "begin"
    /\ llm_calls = 2
    /\ settled = {1, 2}
    /\ \E b \in 1..2 : responses[b].raises

RunIds == {all_valid_dishes[i].id : i \in 1..Len(all_valid_dishes)}

\* C7: persistence is all or nothing: while the transaction is open the
\* store is as the request found it; if the transaction fails (begin, an
\* upsert or the commit raises) the store is as the request found it and the
\* one event of the request is the error event; if it does not fail, the
\* store holds the row of every scored dish and its other rows are as they
\* were.
C7_PersistenceAllOrNothing ==
    /\ txn_open => store = store_pre
    /\ exc \in {"begin", "upsert", "commit"} =>
          /\ store = store_pre
          /\ pc \in {"yielded", "done"} =>
                (Len(events) = 1 /\ events[1].type = "error")
    /\ (exc = "none" /\ pc \in {"emit", "yielded", "done"} /\ all_valid_dishes # <<>>) =>
          /\ RunIds \subseteq Keys(store)
          /\ \A i \in 1..Len(all_valid_dishes) :
                RowOf(store, all_valid_dishes[i].id)
                  = Row(all_valid_dishes[i], HotelId, Len(review_results))
          /\ \A id \in Keys(store) \ RunIds :
                id \in Keys(store_pre) /\ RowOf(store, id) = RowOf(store_pre, id)

\* C7 witness: the second upsert of a request raised, after the first went
\* through, and the request has ended.
C7_Witness ==
    /\ exc = "upsert"
    /\ upserted = 1
    /\ pc = "done"

\* C8: a request ended by a failure of the review query, of the menu query
\* or of the persistence transaction has yielded exactly one event, the
\* error event, and has left the store as it found it; a failed load ends
\* the request before any inference call.
C8_FatalFailureOneErrorEvent ==
    exc # "none" =>
        /\ store = store_pre
        /\ DataEvents = {}
        /\ pc = "except" => events = <<>>
        /\ pc \in {"yielded", "done"} =>
              (Len(events) = 1 /\ events[1].type = "error")
        /\ exc = "review_query" => (menu_loads = 0 /\ llm_calls = 0)
        /\ exc = "menu_query" => llm_calls = 0

\* C8 witness: the menu query of a later request failed for a venue whose
\* store holds the rows of an earlier request.
C8_Witness ==
    /\ exc = "menu_query"
    /\ pc = "done"
    /\ store # EmptyTable

\* C9 as claimed: a request over a non-empty review set that ends without a
\* failure and with no positive dish has yielded one data event with an
\* empty id list.
C9_NoPositiveDishEmptyList ==
    (run >= 1 /\ pc = "done" /\ reviews > 0 /\ exc = "none" /\ NumPositive = 0) =>
        (Len(events) = 1 /\ events[1].type = "data" /\ events[1].ids = <<>>)

(***************************************************************************)
(* The matcher.                                                            *)
(***************************************************************************)
\* the whitespace tokens of s, as pairs of first and last position
TokenSpans(s) ==
    {sp \in (1..Len(s)) \X (1..Len(s)) :
        /\ sp[1] <= sp[2]
        /\ \A k \in sp[1]..sp[2] : ~IsSpace(s[k])
        /\ sp[1] = 1 \/ IsSpace(s[sp[1] - 1])
        /\ sp[2] = Len(s) \/ IsSpace(s[sp[2] + 1])}

FirstToken(s) ==
    LET sp == CHOOSE x \in TokenSpans(s) : \A y \in TokenSpans(s) : x[1] <= y[1]
    IN  SubSeq(s, sp[1], sp[2])
LastToken(s) ==
    LET sp == CHOOSE x \in TokenSpans(s) : \A y \in TokenSpans(s) : x[1] >= y[1]
    IN  SubSeq(s, sp[1], sp[2])

\* the entries the rule lets a name resolve to
Qualifying(name, items) ==
    IF TokenSpans(Lower(name)) = {} THEN {}
    ELSE {i \in 1..Len(items) :
            /\ Contains(Lower(items[i].name), FirstToken(Lower(name)))
            /\ Contains(Lower(items[i].name), LastToken(Lower(name)))}

FirstQualifying(name, items) ==
    IF Qualifying(name, items) = {} THEN 0 ELSE Min(Qualifying(name, items))

\* C10 as claimed: every dish name resolves to the first catalog entry whose
\* lower-cased name contains its only token, or its first and its last
\* token, and to no entry if there is none.
C10_FirstQualifyingEntry ==
    m_result # <<>> => m_result[1] = FirstQualifying(m_name, m_items)

\* The rule of C10 for the dish names that have a token: these resolve to
\* the first qualifying entry, or to none.
MatcherRuleForNamesWithTokens ==
    (m_result # <<>> /\ TokenSpans(Lower(m_name)) # {}) =>
        m_result[1] = FirstQualifying(m_name, m_items)

(***************************************************************************)
(* The first balanced object of a response.                                *)
(***************************************************************************)
\* opening minus closing braces among the tokens a..j
Depth(content, a, j) ==
    Cardinality({k \in a..j : content[k].t = "{"})
        - Cardinality({k \in a..j : content[k].t = "}"})

\* from the first "{" to the "}" that closes it; <<>> if there is none
FirstBalancedSpan(content) ==
    LET opens == IndicesOf(content, "{")
    IN  IF opens = {} THEN <<>>
        ELSE LET a    == Min(opens)
                 ends == {j \in a..Len(content) : Depth(content, a, j) = 0}
             IN  IF ends = {} THEN <<>> ELSE SubSeq(content, a, Min(ends))

DishesOf(span) == IF Len(span) = 3 /\ span[2].has_dishes THEN span[2].dishes ELSE <<>>

\* C11 as claimed: whenever the first balanced top-level span of a response
\* is a well-formed object, whatever text comes before and after it, the
\* parser decodes that span and the batch gets that object's dishes.
C11_FirstBalancedObjectDecoded ==
    (p_result # <<>> /\ JsonValid(FirstBalancedSpan(p_content))) =>
        p_result[1] = [dishes |-> DishesOf(FirstBalancedSpan(p_content)), err |-> FALSE]

\* What the parser does do: when no closing brace follows the first balanced
\* span, it decodes that span.
ParserDecodesWhenNoLaterBrace ==
    (/\ p_result # <<>>
     /\ JsonValid(FirstBalancedSpan(p_content))
     /\ json_match(p_content) = FirstBalancedSpan(p_content)) =>
        p_result[1] = [dishes |-> DishesOf(FirstBalancedSpan(p_content)), err |-> FALSE]

(***************************************************************************)
(* Observations that cannot be used.                                       *)
(***************************************************************************)
\* the observation names a catalog entry and its numeric fields are numbers
UsableObservation(dish) == dish.bad = {} /\ Resolve(dish.name, menu_items) > 0

\* the dishes of the answer of task b, or none if the answer as a whole is
\* lost (the call raised, or the content does not decode)
DishesOfBatch(b) ==
    IF responses[b].raises \/ chunk_dishes(responses[b].content).err THEN <<>>
    ELSE chunk_dishes(responses[b].content).dishes

\* the mapping after merging the usable observations of the tasks ord, in
\* that order, and nothing else
RECURSIVE FoldUsable(_, _, _)
FoldUsable(agg, ord, i) ==
    IF i > Len(ord) THEN agg
    ELSE FoldUsable(MergeDishes(agg, SelectSeq(DishesOfBatch(ord[i]), UsableObservation),
                                menu_items, 1).agg,
                    ord, i + 1)

\* C12 as claimed: once the loop has ended, the mapping is what merging
\* every usable observation of every decoded answer gives: an observation
\* that cannot be used (blank name, no catalog match, a field that is not a
\* number) is left out and changes nothing else.
C12_UnusableObservationSkippedAlone ==
    AtBarrier => aggregated_dishes = FoldUsable(<<>>, order, 1)

(***************************************************************************)
(* A failed inference call.                                                *)
(***************************************************************************)
CallSucceeded(b) == ~responses[b].raises
FailedCalls == {b \in 1..llm_calls : responses[b].raises}

\* The part of C13 about the aggregation and the error event: the tasks
\* that raised add nothing, the others are merged as if the failed ones had
\* never been submitted, and a failed call never takes the request to the
\* error event.
FailedCallLosesOnlyItsBatch ==
    /\ AtBarrier =>
          aggregated_dishes = FoldBatches(<<>>, SelectSeq(order, CallSucceeded), 1)
    /\ exc # "batch"
    /\ (FailedCalls # {} /\ ErrorEvents # {}) =>
          exc \in {"begin", "upsert", "commit"}

\* C13 as claimed: a failed inference call loses only its own batch, and
\* the request still goes on to scoring, persistence and the terminal data
\* event: unless the database fails, a request with a failed call ends
\* having emitted its data event.
C13_FailedCallRunStillEmitsData ==
    /\ FailedCallLosesOnlyItsBatch
    /\ (pc = "done" /\ FailedCalls # {} /\ exc = "none") =>
          (Len(events) = 1 /\ events[1].type = "data")

\* What holds of the end of such a request: it has emitted its data event
\* if at least one dish was matched.
FailedCallRunEmitsDataIfAnyDish ==
    (pc = "done" /\ FailedCalls # {} /\ exc = "none" /\ all_valid_dishes # <<>>) =>
        (Len(events) = 1 /\ events[1].type = "data")

(***************************************************************************)
(* The analytics store across runs.                                        *)
(***************************************************************************)
OneRowPerKey(table) ==
    \A i, j \in 1..Len(table) :
        table[i].menu_item_id = table[j].menu_item_id => i = j

\* the row holds the aggregated and derived values of the scored dish d of
\* the current run
HoldsValuesOf(row, d) ==
    /\ row.mention_count = d.mention_count
    /\ row.positive_mentions = d.positive_mentions
    /\ row.negative_mentions = d.negative_mentions
    /\ row.neutral_mentions = d.neutral_mentions
    /\ row.sentiment_score = d.sentiment_score
    /\ row.popularity_score = d.popularity_score
    /\ row.hype_score = d.hype_score
    /\ row.confidence_score = d.confidence_score
    /\ row.llm_summary = d.final_summary
    /\ row.top_keywords = d.top_keywords
    /\ row.taste_descriptors = d.taste_descriptors
    /\ row.processed_review_count = Len(review_results)

\* C14: whatever runs have been made, the store (committed, and as the open
\* transaction sees it) holds at most one row per menu_item_id; and once a
\* run's transaction has committed, the row of every dish the run scored
\* holds that run's values in every aggregated and derived column, whether
\* the row existed before or not: nothing is carried over from earlier runs.
C14_OneRowPerKeyOverwritten ==
    /\ OneRowPerKey(store)
    /\ OneRowPerKey(txn)
    /\ (exc = "none" /\ pc \in {"emit", "yielded", "done"} /\ all_valid_dishes # <<>>) =>
          \A i \in 1..Len(all_valid_dishes) :
              /\ all_valid_dishes[i].id \in Keys(store)
              /\ HoldsValuesOf(RowOf(store, all_valid_dishes[i].id), all_valid_dishes[i])

\* a second run has committed and has rewritten a row that the first run
\* had left with other values
C14_Witness ==
    /\ run = 2 /\ pc = "done" /\ exc = "none" /\ all_valid_dishes # <<>>
    /\ \E id \in Keys(store_pre) \cap RunIds :
          RowOf(store_pre, id) # RowOf(store, id)

C16_CancelledRunPersistsNothing ==
    /\ exc = "cancelled" =>
          /\ pc = "done"
          /\ writes = 0 /\ ~txn_open
          /\ store = store_pre
          /\ events = <<>>
          /\ ~ENABLED (EmitData \/ EmitError \/ BeginTxn \/ UpsertStep \/ Commit)
    /\ (txn_open \/ writes > 0 \/ pc \in {"begin", "upsert", "emit"}) =>
          /\ settled = 1..llm_calls
          /\ Range(order) = 1..llm_calls
          /\ aggregated_dishes = FoldBatches(<<>>, order, 1)

\* the caller went away after the first of two batches had been merged
C16_Witness ==
    /\ exc = "cancelled"
    /\ llm_calls = 2 /\ consumed = 1
    /\ aggregated_dishes # <<>>
    /\ store_pre # EmptyTable

(***************************************************************************)
(* The batcher.                                                            *)
(***************************************************************************)
RECURSIVE Concat(_)
Concat(seqs) == IF seqs = <<>> THEN <<>> ELSE Head(seqs) \o Concat(Tail(seqs))

\* the least number of batches of four that hold n reviews
CeilQuarter(n) == CHOOSE k \in 0..n : 4 * k >= n /\ 4 * (k - 1) < n

\* C17: once the prompts of a request are built, there are ceil(n/4)
\* batches for its n reviews, each of four reviews but the last, which has
\* one to four, and the batches put end to end are the review list: every
\* review is in exactly one batch and the rows keep their order.
C17_BatchesCoverReviewsInOrder ==
    pc \notin {"idle", "load_reviews", "db_query", "db_except"} /\ review_results # <<>> =>
        /\ Len(prompts) = CeilQuarter(Len(review_results))
        /\ \A c \in 1..(Len(prompts) - 1) : Len(prompts[c]) = 4
        /\ Len(prompts[Len(prompts)]) \in 1..4
        /\ Concat(prompts) = review_results
        /\ \A r \in Range(review_results) :
              Cardinality({<<c, k>> \in (1..Len(prompts)) \X (1..4) :
                              k <= Len(prompts[c]) /\ prompts[c][k] = r}) = 1

\* five reviews: a full batch and a last batch of one
C17_Witness ==
    /\ pc = "load_menu"
    /\ Len(review_results) = 5
    /\ Len(prompts) = 2 /\ Len(prompts[1]) = 4 /\ Len(prompts[2]) = 1

(***************************************************************************)
(* Entries and their occurrence_count.                                     *)
(***************************************************************************)
\* C18 as claimed: between two iterations of the loop and after it, every
\* entry of the mapping has occurrence_count >= 1, whether the batches so
\* far were merged or ended in an exception; and so has every dish that is
\* scored and every dish whose record is written.
C18_EveryEntryCountsAnObservation ==
    /\ \A i \in 1..Len(aggregated_dishes) : aggregated_dishes[i].occurrence_count >= 1
    /\ \A i \in 1..Len(all_valid_dishes) : all_valid_dishes[i].occurrence_count >= 1

\* What holds instead: an entry has occurrence_count >= 1 unless an
\* observation with a field that is not a number was matched to it.
EntryCountsUnlessBadObservation ==
    \A i \in 1..Len(aggregated_dishes) :
        \/ aggregated_dishes[i].occurrence_count >= 1
        \/ \E b \in Range(order) : \E k \in 1..Len(DishesOfBatch(b)) :
              LET dish == DishesOfBatch(b)[k]
              IN  /\ dish.bad # {}
                  /\ Resolve(dish.name, menu_items) > 0
                  /\ menu_items[Resolve(dish.name, menu_items)].id = aggregated_dishes[i].id

(***************************************************************************)
(* The merge of one batch.                                                 *)
(***************************************************************************)
\* C19: from the step that receives a task's answer to the step that
\* merges its last observation, every step is a step of that batch's loop
\* over its dishes: no task settles, no task is handed out and no other
\* batch is started; so between two batches the mapping is what merging
\* the batches received so far, one whole batch after the other, gives.
C19_BatchMergeAtomic ==
    /\ [][in_batch # 0 =>
            /\ settled' = settled
            /\ ready' = ready
            /\ order' = order
            /\ in_batch' \in {in_batch, 0}
            /\ Len(merging') < Len(merging)]_vars
    /\ []((pc = "gather" /\ in_batch = 0) =>
            aggregated_dishes = FoldBatches(<<>>, order, 1))

\* the loop is in the middle of the dishes of one batch while the call of
\* the other batch is still running
C19_Witness ==
    /\ in_batch # 0
    /\ settled # 1..llm_calls
    /\ Len(merging) < Len(DishesOfBatch(in_batch))
    /\ aggregated_dishes # <<>>

(***************************************************************************)
(* The collected fragments and the completion order.                       *)
(***************************************************************************)
\* what an entry has collected for one id: the summary fragments, keywords
\* and descriptors in the order they were added, and the summary they give
Collected(agg, id) ==
    IF HasKey(agg, id)
    THEN LET ad == EntryOf(agg, id)
         IN  <<ad.summary_parts, Take(Join(ad.summary_parts), 500),
               ad.top_keywords, ad.taste_descriptors>>
    ELSE <<<<>>, <<>>, <<>>, <<>>>>

\* C20 as claimed: whatever the order in which the calls complete, every
\* catalog id ends the loop with the same summary fragments in the same
\* order, hence the same final summary, and the same keyword and descriptor
\* lists as when the calls complete in submission order.
C20_AnyOrderSameFragments ==
    AtBarrier =>
        LET canon == FoldBatches(<<>>, SubmissionOrder, 1)
        IN  \A id \in CatalogIds :
               Collected(aggregated_dishes, id) = Collected(canon, id)

(***************************************************************************)
(* One entry per matched catalog entry.                                    *)
(***************************************************************************)
\* the observation is well formed and its name resolves to the entry id
MatchedTo(dish, id) ==
    /\ dish.bad = {}
    /\ Resolve(dish.name, menu_items) > 0
    /\ menu_items[Resolve(dish.name, menu_items)].id = id

\* the sum of a field ("count": the number) over the observations matched
\* to id in the decoded answers received so far, from dish k of the bi-th on
RECURSIVE SumMatched(_, _, _, _)
SumMatched(field, id, bi, k) ==
    IF bi > Len(order) THEN 0
    ELSE LET ds == DishesOfBatch(order[bi])
         IN  IF k > Len(ds) THEN SumMatched(field, id, bi + 1, 1)
             ELSE (IF MatchedTo(ds[k], id)
                   THEN (IF field = "count" THEN 1 ELSE ds[k][field])
                   ELSE 0) + SumMatched(field, id, bi, k + 1)

EntrySumsMatched(id) ==
    /\ Cardinality({i \in 1..Len(aggregated_dishes) : aggregated_dishes[i].id = id}) <= 1
    /\ HasKey(aggregated_dishes, id) <=> SumMatched("count", id, 1, 1) > 0
    /\ HasKey(aggregated_dishes, id) =>
          LET ad == EntryOf(aggregated_dishes, id)
          IN  /\ ad.positive_mentions = SumMatched("positive_mentions", id, 1, 1)
              /\ ad.negative_mentions = SumMatched("negative_mentions", id, 1, 1)
              /\ ad.neutral_mentions = SumMatched("neutral_mentions", id, 1, 1)
              /\ ad.occurrence_count = SumMatched("count", id, 1, 1)

\* C21 as claimed: once the loop has ended the mapping has one entry for
\* each catalog id that an observation was matched to and none for the
\* others, whatever the raw names were; the entry's mention sums are the
\* sums over all the observations matched to it and its occurrence_count is
\* their number.
C21_OneEntryPerMatchedId ==
    AtBarrier => \A id \in CatalogIds : EntrySumsMatched(id)

\* no dish loop of a batch received so far was left by an exception
NoDishLoopRaised ==
    \A b \in Range(order) : ~MergeDishes(<<>>, DishesOfBatch(b), menu_items, 1).err

\* What holds: the statement of C21 for the runs in which no observation
\* raised.
OneEntryPerMatchedIdIfNoneRaised ==
    (AtBarrier /\ NoDishLoopRaised) => \A id \in CatalogIds : EntrySumsMatched(id)

(***************************************************************************)
(* C22: the scores of an entry.                                            *)
(***************************************************************************)
\* C22: for every entry of the mapping the scorer is run on, the scored
\* sentiment_score is the sum of the contributed sentiment scores divided by
\* occurrence_count, to within the rounding of one division (so s * count is
\* within count quanta of the sum; an entry with mention sums far larger than
\* its count is not weighted by them); mention_count is positive + negative
\* + neutral; popularity_score is min(5 * mention_count, 100) and
\* confidence_score is min(10 * mention_count, 100), both exactly; and
\* hype_score is 0 when mention_count is 0 and otherwise
\* 100 * (positive - negative) / mention_count to within the rounding of the
\* division and of the multiplication by 100.
C22_ScoresFollowFormulas ==
    s_scored # <<>> =>
        LET e  == s_entry
            d  == s_scored[1]
            mc == e.positive_mentions + e.negative_mentions + e.neutral_mentions
        IN  /\ Abs(d.sentiment_score * e.occurrence_count - e.sentiment_score)
                  <= e.occurrence_count
            /\ d.mention_count = mc
            /\ d.popularity_score = Min({5 * mc, 100}) * One
            /\ d.confidence_score = Min({10 * mc, 100}) * One
            /\ mc = 0 => d.hype_score = 0
            /\ mc > 0 =>
                   Abs(d.hype_score * mc
                       - 100 * (e.positive_mentions - e.negative_mentions) * One)
                       <= (50 + One) * mc

\* an entry observed twice with 21 mentions, more negative than positive,
\* has been scored: both caps apply and the count differs from the mentions
C22_Witness ==
    /\ s_scored # <<>>
    /\ s_entry.occurrence_count = 2
    /\ s_entry.positive_mentions = 5
    /\ s_entry.negative_mentions = 8
    /\ s_entry.neutral_mentions = 8
    /\ s_entry.sentiment_score = 3 * (One \div 4)
    /\ s_scored[1].popularity_score = 100 * One
    /\ s_scored[1].confidence_score = 100 * One
    /\ s_scored[1].hype_score < 0

(***************************************************************************)
(* C23: the lists and the summary of a persisted record.                   *)
(***************************************************************************)
NoDuplicates(xs) == \A i, j \in 1..Len(xs) : xs[i] = xs[j] => i = j

\* C23: every record persisted for a scored entry has top_keywords and
\* taste_descriptors without duplicates, of at most 10 elements each, every
\* one of them a keyword (descriptor) collected for the entry, and a summary
\* of at most 500 characters.
C23_PersistedListsCapped ==
    \A i \in 1..Len(store) :
        LET r == store[i]
        IN  /\ NoDuplicates(r.top_keywords)
            /\ Len(r.top_keywords) <= 10
            /\ Range(r.top_keywords) \subseteq Range(s_entry.top_keywords)
            /\ NoDuplicates(r.taste_descriptors)
            /\ Len(r.taste_descriptors) <= 10
            /\ Range(r.taste_descriptors) \subseteq Range(s_entry.taste_descriptors)
            /\ Len(r.llm_summary) <= 500

\* a record is persisted for an entry with 12 collected keywords, 11 of them
\* distinct, and 601 characters of summary: it holds 10 keywords and 500
\* characters
C23_Witness ==
    /\ Len(store) = 1
    /\ Len(s_entry.top_keywords) = 12
    /\ Cardinality(Range(s_entry.top_keywords)) = 11
    /\ Len(Join(s_entry.summary_parts)) = 601
    /\ Len(store[1].top_keywords) = 10
    /\ Len(store[1].llm_summary) = 500

(***************************************************************************)
(* C24: the catalog is loaded once, between the reviews and the calls.     *)
(***************************************************************************)
\* C24: in every run that found reviews the menu query block is entered
\* exactly once: the count is 1 from the moment the run has left it, it
\* never exceeds 1, the step that raises it is taken with the reviews
\* loaded and no inference call yet created, and no step taken while the
\* batches complete changes the count or the loaded menu_items.
C24_CatalogLoadedOnceBeforeDispatch ==
    /\ [](/\ menu_loads <= 1
          /\ (review_results # <<>> /\ pc \notin {"load_reviews", "load_menu"})
                 => menu_loads = 1
          /\ llm_calls > 0 => menu_loads = 1)
    /\ [][/\ menu_loads' > menu_loads =>
                 /\ pc = "load_menu"
                 /\ review_results # <<>>
                 /\ llm_calls = 0
                 /\ llm_calls' = 0
          /\ pc = "gather" =>
                 (menu_loads' = menu_loads /\ menu_items' = menu_items)]_vars

\* a run of two batches has ended with its data event after one load
C24_Witness ==
    /\ pc = "done"
    /\ consumed = 2
    /\ menu_loads = 1
    /\ menu_items = catalog
    /\ DataEvents # {}

(***************************************************************************)
(* C25: one inference call per batch, all created before the loop.         *)
(***************************************************************************)
\* C25: a run issues exactly one inference call per batch: the calls
\* created are 0 before the dispatch and one per prompt, in the order of
\* the prompts, from then on; the only step that creates calls is taken
\* before any response is processed, and no step taken while the responses
\* are processed creates another call, whether a call raised or its answer
\* was malformed; every call is handed to the loop at most once.
C25_OneCallPerBatchNoRetry ==
    /\ [](/\ llm_calls \in {0, Len(prompts)}
          /\ \A i \in 1..Len(tasks(prompts)) : tasks(prompts)[i] = i
          /\ pc = "gather" =>
                 (llm_calls = Len(prompts)
                  /\ llm_calls = total_chunks(Len(review_results)))
          /\ consumed > 0 => llm_calls = Len(prompts)
          /\ Range(order) \subseteq 1..llm_calls
          /\ \A i, j \in 1..Len(order) : order[i] = order[j] => i = j)
    /\ [][/\ (llm_calls' # llm_calls /\ run' = run) =>
                 /\ pc = "dispatch"
                 /\ llm_calls = 0
                 /\ consumed = 0 /\ settled = {} /\ order = <<>>
          /\ pc = "gather" => llm_calls' = llm_calls]_vars

\* a run of two batches, one of which raised and one of which answered
\* with prose only, has ended after two calls
C25_Witness ==
    /\ pc = "done"
    /\ llm_calls = 2
    /\ consumed = 2
    /\ \E b \in 1..2 : responses[b].raises
    /\ \E b \in 1..2 : Unparseable(b)

(***************************************************************************)
(* C26: the data event comes after the commit and names written records.   *)
(***************************************************************************)
\* C26: the step that yields the data event of a run is taken only when the
\* transaction of the run is closed, every scored dish of the run has been
\* upserted and nothing has raised, and the store then holds those rows;
\* and whenever the events of a run hold a data event, every id it carries
\* is the id of a scored dish of this run whose row, with the values this
\* run computed, is in the store.
C26_DataEventAfterCommit ==
    /\ [][(Len(events') > Len(events) /\ events'[Len(events')].type = "data") =>
              /\ pc = "emit"
              /\ ~txn_open
              /\ exc = "none"
              /\ writes = Len(all_valid_dishes)
              /\ upserted = Len(all_valid_dishes)
              /\ upserted > 0
              /\ store' = store
              /\ \A i \in 1..Len(all_valid_dishes) :
                    /\ all_valid_dishes[i].id \in Keys(store)
                    /\ HoldsValuesOf(RowOf(store, all_valid_dishes[i].id),
                                     all_valid_dishes[i])]_vars
    /\ [](\A e \in DataEvents :
              /\ ~txn_open
              /\ \A k \in 1..Len(e.ids) :
                    /\ e.ids[k] \in RunIds
                    /\ e.ids[k] \in Keys(store)
                    /\ \E i \in 1..Len(all_valid_dishes) :
                          /\ all_valid_dishes[i].id = e.ids[k]
                          /\ HoldsValuesOf(RowOf(store, e.ids[k]), all_valid_dishes[i]))

\* the data event of a run that upserted two rows over rows of an earlier
\* run carries an id
C26_Witness ==
    /\ run = 2
    /\ pc = "yielded"
    /\ upserted = 2
    /\ store_pre # EmptyTable
    /\ \E e \in DataEvents : Len(e.ids) >= 1

(***************************************************************************)
(* C27: the read path.                                                     *)
(***************************************************************************)
\* what a step of the read path leaves alone, and what its data event
\* carries: no call, no write, the store untouched, and ids of rows of the
\* venue with sentiment_score > 0 and positive_mentions > negative_mentions,
\* at most limit of them
ReadPathStep ==
    /\ store' = store
    /\ llm_calls' = 0 /\ writes' = 0 /\ menu_loads' = 0
    /\ (Len(events') > Len(events) /\ events'[Len(events')].type = "data") =>
           LET e == events'[Len(events')]
           IN  /\ Len(events') = 1
               /\ Len(e.ids) <= limit
               /\ \A k \in 1..Len(e.ids) :
                     \E i \in 1..Len(store) :
                         /\ store[i].menu_item_id = e.ids[k]
                         /\ DbQualifies(store[i], HotelId)

\* the entries of a data event just yielded have the keys of the entries of
\* the pipeline's data event
SameShapeStep ==
    (Len(events') > Len(events) /\ events'[Len(events')].type = "data") =>
        events'[Len(events')].keys = data_event(events'[Len(events')].ids).keys

\* C27: every step of get_db_recommendations issues no inference call and
\* writes nothing, and the data event it yields is the only event of the
\* request, holds at most limit entries, all of qualifying rows of the
\* venue, each entry with the keys of an entry of the pipeline's data event.
C27_ReadPathSameShape ==
    [][(pc \in {"db_query", "db_except"}) => (ReadPathStep /\ SameShapeStep)]_vars

\* every step of get_db_recommendations issues no inference call and writes
\* nothing, and its data event is the only event of the request and holds
\* at most limit entries, all of qualifying rows of the venue
ReadPathReadsQualifyingRows == [][(pc \in {"db_query", "db_except"}) => ReadPathStep]_vars

(***************************************************************************)
(* C28: a run writes only rows of its own venue.                           *)
(***************************************************************************)
\* the venues whose menu holds the item id
OwnersOf(id) ==
    {MenuTable(catalog)[i].hotel_id :
        i \in {j \in 1..Len(MenuTable(catalog)) : MenuTable(catalog)[j].id = id}}

\* every row of the table is labelled with the one venue whose menu holds
\* its item
RowsOfOwnVenue(table) ==
    \A i \in 1..Len(table) : OwnersOf(table[i].menu_item_id) = {table[i].hotel_id}

\* C28: in the store, and in the transaction of a run, every row is
\* labelled with the venue whose menu holds its item; and every step of a
\* run for venue hotel_id leaves the rows of the store that it does not
\* create or rewrite in place, and the rows it creates or rewrites are rows
\* of items of hotel_id's menu labelled hotel_id, so that no row of another
\* venue's item is created, overwritten or re-labelled.
C28_VenueIsolation ==
    /\ [](RowsOfOwnVenue(store) /\ RowsOfOwnVenue(txn))
    /\ [][/\ Len(store') >= Len(store)
          /\ \A i \in 1..Len(store') :
                (i > Len(store) \/ store'[i] # store[i]) =>
                    /\ store'[i].hotel_id = hotel_id
                    /\ OwnersOf(store'[i].menu_item_id) = {hotel_id}
          /\ \A i \in 1..Len(store) :
                store[i].hotel_id # hotel_id => store'[i] = store[i]]_vars

\* a run for the second venue has ended after writing a row next to a row
\* that a run for the first venue wrote
C28_Witness ==
    /\ run = 2
    /\ pc = "done"
    /\ hotel_id = OtherVenue
    /\ writes > 0
    /\ exc = "none"
    /\ \E i \in 1..Len(store) : store[i].hotel_id = HotelId
    /\ \E i \in 1..Len(store) : store[i].hotel_id = OtherVenue

(***************************************************************************)
(* C29: a batch whose processing raises after its answer was decoded.      *)
(***************************************************************************)
\* the task the loop receives next answered, its answer decoded to a list
\* of dishes, and the loop over the dishes raises
RaisesInDishLoop ==
    /\ pc = "gather"
    /\ ~LoopDone(consumed, llm_calls)
    /\ ready # <<>>
    /\ ~responses[Head(ready)].raises
    /\ ~chunk_dishes(responses[Head(ready)].content).err
    /\ TryBlock(aggregated_dishes, completed_count, responses[Head(ready)],
                menu_items).err

\* C29: an iteration of the loop over as_completed whose dish loop raises
\* leaves the mapping exactly as it found it.
C29_RaisingBatchLeavesMapAlone ==
    [][(RaisesInDishLoop /\ consumed' = consumed + 1) =>
           aggregated_dishes' = aggregated_dishes]_vars

\* an iteration whose dish loop raises leaves the mapping as the dishes
\* before the one that raised, and the additions made for that one before
\* it raised, have made it
RaisingBatchKeepsEarlierMerges ==
    [][(RaisesInDishLoop /\ consumed' = consumed + 1) =>
           aggregated_dishes'
             = MergeDishes(aggregated_dishes,
                           chunk_dishes(responses[Head(ready)].content).dishes,
                           menu_items, 1).agg]_vars

(***************************************************************************)
(* C30: the rows a run does not write.                                     *)
(***************************************************************************)
\* C30: at every point of a run, every row the run found in the store for
\* an item to which the run has matched no observation is still in the
\* store, in its place and unchanged; and as long as the run has matched no
\* dish it has executed no write, holds no transaction and the store is as
\* the run found it.
C30_UnmatchedRowsUntouched ==
    /\ \A i \in 1..Len(store_pre) :
          ~HasKey(aggregated_dishes, store_pre[i].menu_item_id) =>
              (i <= Len(store) /\ store[i] = store_pre[i])
    /\ aggregated_dishes = <<>> =>
          (writes = 0 /\ ~txn_open /\ store = store_pre)

\* a run has ended after writing rows of its own, next to a row it found
\* and to whose item it matched nothing
C30_Witness ==
    /\ run = 2
    /\ pc = "done"
    /\ exc = "none"
    /\ writes > 0
    /\ store # store_pre
    /\ \E i \in 1..Len(store_pre) :
          /\ ~HasKey(aggregated_dishes, store_pre[i].menu_item_id)
          /\ store[i] = store_pre[i]
====
